---- MODULE Spec2Model ----
(***************************************************************************)
(* Model of src/src/swarm_utils.py: the swarm-output cleaning and          *)
(* extraction pipeline (clean_swarm_text, clean_swarm_output,              *)
(* extract_swarm_content, format_swarm_summary), of the stock tools of     *)
(* src/src/mcp_servers/ecommerce_db_server.py and of the line scanner of   *)
(* src/convert_to_jupyter.py.                                              *)
(*                                                                         *)
(* A Python str is a sequence of Unicode code points (integers), so that   *)
(* substring tests, regular-expression matches, slices and replacements    *)
(* are computed character by character as the interpreter computes them.   *)
(* A Python value is a tagged record:                                      *)
(*    [t |-> "str",  s |-> <<code points>>]                                *)
(*    [t |-> "int",  n |-> integer]                                        *)
(*    [t |-> "none"]                                                       *)
(*    [t |-> "list", l |-> <<values>>]                                     *)
(*    [t |-> "dict", d |-> record mapping key names to values]             *)
(* and an exception that leaves a function is [t |-> "raise", e |-> name]. *)
(***************************************************************************)
EXTENDS Integers, Sequences, FiniteSets, TLC

VARIABLES
    pc,                \* position of the running invocation
    text,              \* clean_swarm_text: the argument of the call
    cleaned,           \* clean_swarm_text(text)
    recleaned,         \* clean_swarm_text(clean_swarm_text(text))
    json_data,         \* the fragment sequence handed in by the caller
    cleaned_data,      \* clean_swarm_output(json_data)
    extract_arg,       \* extract_swarm_content: its argument json_data
    idx,               \* extract_swarm_content: 1-based position of the loop
    content_sections,  \* extract_swarm_content: the accumulator
    raised,            \* the exception that left the invocation, or "none"
    extracted,         \* the record extract_swarm_content returned
    extracted_content, \* format_swarm_summary: its first argument
    max_response_length, \* format_swarm_summary: its second argument
    summary,           \* format_swarm_summary: the list of lines
    formatted,         \* the string format_swarm_summary returned
    swarm_result,      \* display_swarm_analysis: its first argument
    verbose,           \* display_swarm_analysis: its second argument
    stdout,            \* the lines print has written
    returned,          \* the dictionary display_swarm_analysis returned
    save_input,        \* save_cleaned_swarm_output: its argument json_data
    format_output,     \* save_cleaned_swarm_output: its third argument
    output_file,       \* the characters written to output_file
    calls,             \* the invocations in progress side by side
    conn,              \* ecommerce_db_server: the global connection
    initialize_count,  \* how often initialize_database has run
    request,           \* the latest tool call of the e-commerce server
    reply,             \* what the latest tool call returned
    written,           \* per product, the stock update_stock wrote last
    markdown_content,  \* create_jupyter_notebook: its first argument
    source_lines,      \* create_jupyter_notebook: lines
    line_no,           \* create_jupyter_notebook: i, as a 1-based position
    cells,             \* create_jupyter_notebook: cells
    current_cell,      \* create_jupyter_notebook: current_cell
    in_code_block      \* create_jupyter_notebook: in_code_block

cleanVars == <<text, cleaned, recleaned>>
extractVars == <<json_data, cleaned_data, extract_arg, idx, content_sections,
                 raised, extracted>>
formatVars == <<extracted_content, max_response_length, summary, formatted>>
displayVars == <<swarm_result, verbose, stdout, returned>>
saveVars == <<save_input, format_output, output_file>>
callVars == <<calls>>
shopVars == <<conn, initialize_count, request, reply, written>>
notebookVars == <<markdown_content, source_lines, line_no, cells,
                  current_cell, in_code_block>>
otherVars == <<callVars, shopVars, notebookVars>>
vars == <<pc, cleanVars, extractVars, formatVars, displayVars, saveVars,
          otherVars>>

(***************************************************************************)
(* Python values                                                           *)
(***************************************************************************)
PyStr(s) == [t |-> "str", s |-> s]
PyInt(n) == [t |-> "int", n |-> n]
PyNone == [t |-> "none"]
PyList(l) == [t |-> "list", l |-> l]
PyDict(d) == [t |-> "dict", d |-> d]
Raise(e) == [t |-> "raise", e |-> e]

\* isinstance(x, str)
IsStr(x) == x.t = "str"

(***************************************************************************)
(* Sequence helpers                                                        *)
(***************************************************************************)
SetMin(S) == CHOOSE m \in S : \A k \in S : m <= k

\* s[i-1:j-1] of Python for 1-based i, exclusive 1-based j
Slice(s, i, j) == [k \in 1..(j - i) |-> s[i + k - 1]]

\* s.startswith(lit, i-1): lit occurs in s at 1-based position i
OccursAt(lit, s, i) ==
    /\ i >= 1
    /\ i + Len(lit) - 1 <= Len(s)
    /\ \A k \in 1..Len(lit) : s[i + k - 1] = lit[k]

\* the concatenation of a sequence of strings
RECURSIVE Concat(_)
Concat(ss) == IF ss = <<>> THEN <<>> ELSE Head(ss) \o Concat(Tail(ss))

\* all sequences over S of length at most n
SeqsUpTo(S, n) == UNION {[1..k -> S] : k \in 0..n}

(***************************************************************************)
(* clean_swarm_text (swarm_utils.py:14-57)                                 *)
(***************************************************************************)
\* '\x1b[' : the literal prefix of r'\x1b\[[0-9;]*m'
EscPrefix == <<27, 91>>
\* the seven characters backslash u 0 0 1 b [ : prefix of r'\\u001b\[[0-9;]*m'
EscapedPrefix == <<92, 117, 48, 48, 49, 98, 91>>
\* the character class [0-9;]
AnsiParams == (48..57) \cup {59}
\* 'm', the final character of both patterns
AnsiFinal == 109

\* Length of the match of  prefix [0-9;]* m  that starts at position i of s,
\* or 0 when the pattern does not match there.  The class excludes 'm', so
\* the greedy star has exactly one way to match.
AnsiMatchLen(prefix, s, i) ==
    IF ~OccursAt(prefix, s, i) THEN 0
    ELSE LET from == i + Len(prefix)
             stops == {k \in from..Len(s) : s[k] \notin AnsiParams}
             stop == IF stops = {} THEN Len(s) + 1 ELSE SetMin(stops)
         IN  IF stop <= Len(s) /\ s[stop] = AnsiFinal THEN stop - i + 1 ELSE 0

\* re.sub(prefix [0-9;]* m, '', s) from position i on: one left-to-right
\* scan that finds the leftmost match at or after i, keeps the text before
\* it, drops the match and resumes right after it
RECURSIVE ReSubFrom(_, _, _)
ReSubFrom(prefix, s, i) ==
    LET starts == {j \in i..Len(s) : AnsiMatchLen(prefix, s, j) > 0}
    IN  IF starts = {} THEN Slice(s, i, Len(s) + 1)
        ELSE LET j == SetMin(starts)
             IN  Slice(s, i, j) \o ReSubFrom(prefix, s, j + AnsiMatchLen(prefix, s, j))

ReSubAnsi(prefix, s) == ReSubFrom(prefix, s, 1)

\* the keys of box_chars, grouped by the value they map to
BoxToPlus ==
    {\h256D, \h256E, \h2570, \h256F, \h251C, \h2514, \h2524, \h252C, \h2534,
     \h253C, \h2554, \h2557, \h255A, \h255D, \h2560, \h2563, \h2566, \h2569,
     \h256C}
    \cup (\h2552..\h256C)
BoxToMinus == {\h2500}
BoxToBar == {\h2502, \h2551}
BoxToEquals == {\h2550}
BoxKeys == BoxToPlus \cup BoxToMinus \cup BoxToBar \cup BoxToEquals

\* box_chars[c] for a key c: '+' 43, '-' 45, '|' 124, '=' 61
BoxValue(c) ==
    CASE c \in BoxToMinus -> 45
      [] c \in BoxToBar -> 124
      [] c \in BoxToEquals -> 61
      [] OTHER -> 43

\* for old_char, new_char in box_chars.items(): text = text.replace(...)
\* Every key is one character and no value is a key, so the successive
\* replacements amount to mapping each character once.
ReplaceBoxChars(s) ==
    [k \in 1..Len(s) |-> IF s[k] \in BoxKeys THEN BoxValue(s[k]) ELSE s[k]]

\* the function run on a value that already passed the isinstance check
clean_str(s) ==
    ReplaceBoxChars(ReSubAnsi(EscapedPrefix, ReSubAnsi(EscPrefix, s)))

\* a variant without the isinstance guard: re.sub raises TypeError on a
\* value that is not a string
clean_swarm_text_unguarded(x) ==
    IF ~IsStr(x) THEN Raise("TypeError") ELSE PyStr(clean_str(x.s))

clean_swarm_text(x) ==
    IF ~IsStr(x) THEN x ELSE PyStr(clean_str(x.s))

(***************************************************************************)
(* String operations of the interpreter                                    *)
(***************************************************************************)
\* lit in s, for two strings
Contains(lit, s) == \E i \in 1..(Len(s) - Len(lit) + 1) : OccursAt(lit, s, i)

\* s.find(lit): the 0-based index of the first occurrence, or -1
Find(lit, s) ==
    LET at == {i \in 1..(Len(s) - Len(lit) + 1) : OccursAt(lit, s, i)}
    IN  IF at = {} THEN -1 ELSE SetMin(at) - 1

\* s[a:b] for 0-based a >= 0 and b >= 0
PySlice(s, a, b) ==
    LET hi == IF b < Len(s) THEN b ELSE Len(s)
    IN  IF a >= hi THEN <<>> ELSE [k \in 1..(hi - a) |-> s[a + k]]

\* the characters str.strip() removes (str.isspace)
Whitespace ==
    (9..13) \cup (28..32) \cup {133, 160, \h1680} \cup (\h2000..\h200A)
    \cup {\h2028, \h2029, \h202F, \h205F, \h3000}

\* s.strip()
Strip(s) ==
    LET keep == {k \in 1..Len(s) : s[k] \notin Whitespace}
    IN  IF keep = {} THEN <<>>
        ELSE LET lo == SetMin(keep)
                 hi == CHOOSE m \in keep : \A k \in keep : k <= m
             IN  [k \in 1..(hi - lo + 1) |-> s[lo + k - 1]]

\* lit in x for a value x that supports it: substring of a str, element of
\* a list, key of a dict
InOp(lit, x) ==
    CASE x.t = "str" -> Contains(lit, x.s)
      [] x.t = "list" -> \E k \in 1..Len(x.l) : x.l[k] = PyStr(lit)
      [] x.t = "dict" -> lit \in DOMAIN x.d
      [] OTHER -> FALSE

\* lit in x raises TypeError: x is not iterable
InOpRaises(x) == x.t \notin {"str", "list", "dict"}

(***************************************************************************)
(* json.loads (the part of the grammar the callers can reach)              *)
(***************************************************************************)
PyBool(b) == [t |-> "bool", b |-> b]
\* a float is kept as the text of its literal
PyFloat(lex) == [t |-> "float", lex |-> lex]

JsonFail == [ok |-> FALSE]
JsonOk(v, next) == [ok |-> TRUE, v |-> v, next |-> next]

\* space, tab, line feed, carriage return
JsonWs == {32, 9, 10, 13}
Digits == 48..57

\* the first position at or after i that holds no JSON whitespace
SkipWs(s, i) ==
    LET rest == {k \in i..Len(s) : s[k] \notin JsonWs}
    IN  IF rest = {} THEN Len(s) + 1 ELSE SetMin(rest)

\* the first position at or after i that holds no digit
SkipDigits(s, i) ==
    LET rest == {k \in i..Len(s) : s[k] \notin Digits}
    IN  IF rest = {} THEN Len(s) + 1 ELSE SetMin(rest)

\* the escapes  \" \\ \/ \b \f \n \r \t  and the characters they stand for
SimpleEscape ==
    (34 :> 34) @@ (92 :> 92) @@ (47 :> 47) @@ (98 :> 8) @@ (102 :> 12)
    @@ (110 :> 10) @@ (114 :> 13) @@ (116 :> 9)

HexDigits == Digits \cup (65..70) \cup (97..102)
HexDigit(c) == IF c \in Digits THEN c - 48 ELSE IF c >= 97 THEN c - 87 ELSE c - 55
\* the four hex digits at k..k+3, or -1
Hex4(s, k) ==
    IF k + 3 <= Len(s) /\ \A d \in 0..3 : s[k + d] \in HexDigits
    THEN 4096 * HexDigit(s[k]) + 256 * HexDigit(s[k + 1])
         + 16 * HexDigit(s[k + 2]) + HexDigit(s[k + 3])
    ELSE -1

\* the characters of a string literal from position k on, up to the
\* closing quote; acc holds the decoded characters so far
RECURSIVE ScanString(_, _, _)
ScanString(s, k, acc) ==
    IF k > Len(s) THEN JsonFail
    ELSE IF s[k] = 34 THEN JsonOk(PyStr(acc), k + 1)
    ELSE IF s[k] = 92 THEN
        IF k + 1 > Len(s) THEN JsonFail
        ELSE IF s[k + 1] \in DOMAIN SimpleEscape
            THEN ScanString(s, k + 2, Append(acc, SimpleEscape[s[k + 1]]))
        ELSE IF s[k + 1] = 117 THEN
            LET hi == Hex4(s, k + 2)
                lo == IF k + 7 <= Len(s) /\ s[k + 6] = 92 /\ s[k + 7] = 117
                      THEN Hex4(s, k + 8) ELSE -1
            IN  IF hi = -1 THEN JsonFail
                ELSE IF hi \in \hD800..\hDBFF /\ lo \in \hDC00..\hDFFF
                    THEN ScanString(s, k + 12,
                             Append(acc, 65536 + (hi - \hD800) * 1024 + (lo - \hDC00)))
                ELSE ScanString(s, k + 6, Append(acc, hi))
        ELSE JsonFail
    ELSE IF s[k] < 32 THEN JsonFail
    ELSE ScanString(s, k + 1, Append(acc, s[k]))

\* the value of a run of decimal digits
RECURSIVE DecimalValue(_)
DecimalValue(ds) ==
    IF ds = <<>> THEN 0
    ELSE 10 * DecimalValue(SubSeq(ds, 1, Len(ds) - 1)) + (ds[Len(ds)] - 48)

\* a number at position i:  -? (0 | [1-9][0-9]*) (\.[0-9]+)? ([eE][-+]?[0-9]+)?
ScanNumber(s, i) ==
    LET neg == i <= Len(s) /\ s[i] = 45
        d0 == IF neg THEN i + 1 ELSE i
        intEnd == IF d0 > Len(s) \/ s[d0] \notin Digits THEN d0
                  ELSE IF s[d0] = 48 THEN d0 + 1
                  ELSE SkipDigits(s, d0)
        fracEnd == IF intEnd + 1 <= Len(s) /\ s[intEnd] = 46
                      /\ s[intEnd + 1] \in Digits
                   THEN SkipDigits(s, intEnd + 1) ELSE intEnd
        signed == fracEnd + 1 <= Len(s) /\ s[fracEnd] \in {69, 101}
                  /\ s[fracEnd + 1] \in {43, 45}
        e0 == IF signed THEN fracEnd + 2 ELSE fracEnd + 1
        expEnd == IF fracEnd <= Len(s) /\ s[fracEnd] \in {69, 101}
                     /\ e0 <= Len(s) /\ s[e0] \in Digits
                  THEN SkipDigits(s, e0) ELSE fracEnd
    IN  IF intEnd = d0 THEN JsonFail
        ELSE IF expEnd = intEnd
            THEN JsonOk(PyInt((IF neg THEN -1 ELSE 1)
                              * DecimalValue(Slice(s, d0, intEnd))), intEnd)
        ELSE JsonOk(PyFloat(Slice(s, i, expEnd)), expEnd)

\* null true false NaN Infinity -Infinity
JsonNull == <<110, 117, 108, 108>>
JsonTrue == <<116, 114, 117, 101>>
JsonFalse == <<102, 97, 108, 115, 101>>
JsonNaN == <<78, 97, 78>>
JsonInfinity == <<73, 110, 102, 105, 110, 105, 116, 121>>

ScanLiteral(s, i) ==
    IF OccursAt(JsonNull, s, i) THEN JsonOk(PyNone, i + 4)
    ELSE IF OccursAt(JsonTrue, s, i) THEN JsonOk(PyBool(TRUE), i + 4)
    ELSE IF OccursAt(JsonFalse, s, i) THEN JsonOk(PyBool(FALSE), i + 5)
    ELSE IF OccursAt(JsonNaN, s, i) THEN JsonOk(PyFloat(JsonNaN), i + 3)
    ELSE IF OccursAt(JsonInfinity, s, i) THEN JsonOk(PyFloat(JsonInfinity), i + 8)
    ELSE IF OccursAt(<<45>> \o JsonInfinity, s, i)
        THEN JsonOk(PyFloat(<<45>> \o JsonInfinity), i + 9)
    ELSE ScanNumber(s, i)

RECURSIVE ParseValue(_, _)
RECURSIVE ParseArrayRest(_, _, _)
RECURSIVE ParseObjectRest(_, _, _)

\* after an element of an array: j is the position of the next character
\* that is no whitespace, acc the elements so far
ArrayNext(s, j, acc) ==
    IF j > Len(s) THEN JsonFail
    ELSE IF s[j] = 93 THEN JsonOk(PyList(acc), j + 1)
    ELSE IF s[j] = 44 THEN ParseArrayRest(s, SkipWs(s, j + 1), acc)
    ELSE JsonFail

\* r is the outcome of parsing one element of an array
ArrayAfter(s, r, acc) ==
    IF ~r.ok THEN JsonFail
    ELSE ArrayNext(s, SkipWs(s, r.next), Append(acc, r.v))

\* the elements of an array from position i (the start of an element) on
ParseArrayRest(s, i, acc) == ArrayAfter(s, ParseValue(s, i), acc)

\* d with key k set to v; a repeated key keeps its last value
DictSet(d, k, v) == [x \in DOMAIN d \cup {k} |-> IF x = k THEN v ELSE d[x]]

\* after a member of an object: j is the position of the next character
\* that is no whitespace, d the members so far
ObjectNext(s, j, d) ==
    IF j > Len(s) THEN JsonFail
    ELSE IF s[j] = 125 THEN JsonOk(PyDict(d), j + 1)
    ELSE IF s[j] = 44 THEN ParseObjectRest(s, SkipWs(s, j + 1), d)
    ELSE JsonFail

\* r is the outcome of parsing the value of the member with key k
ObjectAfterValue(s, k, r, d) ==
    IF ~r.ok THEN JsonFail
    ELSE ObjectNext(s, SkipWs(s, r.next), DictSet(d, k, r.v))

\* c is the position where the colon after key k must stand
ObjectAfterColon(s, k, c, d) ==
    IF c > Len(s) \/ s[c] # 58 THEN JsonFail
    ELSE ObjectAfterValue(s, k, ParseValue(s, SkipWs(s, c + 1)), d)

\* key is the outcome of scanning the string literal of a key
ObjectAfterKey(s, key, d) ==
    IF ~key.ok THEN JsonFail
    ELSE ObjectAfterColon(s, key.v.s, SkipWs(s, key.next), d)

\* the members of an object from position i (the start of a key) on
ParseObjectRest(s, i, d) ==
    IF i > Len(s) \/ s[i] # 34 THEN JsonFail
    ELSE ObjectAfterKey(s, ScanString(s, i + 1, <<>>), d)

\* the array or object whose opening bracket stands right before j, the
\* position of the next character that is no whitespace
ParseContainer(s, open, j) ==
    IF open = 91
    THEN IF j <= Len(s) /\ s[j] = 93 THEN JsonOk(PyList(<<>>), j + 1)
         ELSE ParseArrayRest(s, j, <<>>)
    ELSE IF j <= Len(s) /\ s[j] = 125 THEN JsonOk(PyDict(<<>>), j + 1)
         ELSE ParseObjectRest(s, j, <<>>)

\* one JSON value that starts at position i
ParseValue(s, i) ==
    IF i > Len(s) THEN JsonFail
    ELSE IF s[i] = 34 THEN ScanString(s, i + 1, <<>>)
    ELSE IF s[i] \in {91, 123} THEN ParseContainer(s, s[i], SkipWs(s, i + 1))
    ELSE ScanLiteral(s, i)

\* r is the outcome of parsing the one value of the document: only
\* whitespace may follow it
WholeDocument(s, r) ==
    IF r.ok /\ SkipWs(s, r.next) > Len(s) THEN [ok |-> TRUE, v |-> r.v]
    ELSE JsonFail

\* json.loads(s): [ok |-> TRUE, v |-> value], or [ok |-> FALSE] when it
\* raises JSONDecodeError
JsonLoads(s) == WholeDocument(s, ParseValue(s, SkipWs(s, 1)))

(***************************************************************************)
(* clean_swarm_output (swarm_utils.py:60-80)                               *)
(***************************************************************************)
\* the key 'text'
TextKey == <<116, 101, 120, 116>>

\* isinstance(item, dict) and 'text' in item
HasText(item) == item.t = "dict" /\ TextKey \in DOMAIN item.d

\* one iteration of the loop: the element appended to cleaned_data
clean_item(item) ==
    IF HasText(item)
    THEN PyDict([item.d EXCEPT ![TextKey] = clean_swarm_text(item.d[TextKey])])
    ELSE item

\* a variant without the copy: cleaned_item is the caller's mapping, and
\* the assignment of the cleaned text writes into it
item_after_clean_aliased(item) == clean_item(item)

\* lines 74-75: the caller's element after the iteration.  The cleaned
\* text is assigned to the copy made at line 74, so the element is as it
\* was
item_after_clean(item) == item

\* the caller's list after clean_swarm_output(json_data) has returned
input_after_clean(data) ==
    PyList([k \in 1..Len(data.l) |-> item_after_clean(data.l[k])])

\* a variant that drops the elements without a 'text' key
clean_swarm_output_dropping(data) ==
    PyList(SelectSeq([k \in 1..Len(data.l) |-> clean_item(data.l[k])], HasText))

\* clean_swarm_output(json_data) for a list json_data
clean_swarm_output(data) ==
    PyList([k \in 1..Len(data.l) |-> clean_item(data.l[k])])

(***************************************************************************)
(* extract_swarm_content (swarm_utils.py:83-151)                           *)
(***************************************************************************)
SwarmStatusLit == <<83, 119, 97, 114, 109, 32, 83, 116, 97, 116, 117, 115>>
\* 'Agent agent_'
AgentLit == <<65, 103, 101, 110, 116, 32, 97, 103, 101, 110, 116, 95>>
ResponseLit == <<82, 101, 115, 112, 111, 110, 115, 101, 58>>
MetricsLit == <<77, 101, 116, 114, 105, 99, 115, 58>>
\* '\n\nMetrics:'
MetricsDelim == <<10, 10>> \o MetricsLit
\* 'Collective Knowledge:'
KnowledgeLit ==
    <<67, 111, 108, 108, 101, 99, 116, 105, 118, 101, 32,
      75, 110, 111, 119, 108, 101, 100, 103, 101, 58>>
ContentKey == <<99, 111, 110, 116, 101, 110, 116>>
Unknown == <<117, 110, 107, 110, 111, 119, 110>>

\* r'Agent agent_\d' matches at position i (\d taken as an ASCII digit: the
\* inputs hold no other decimal digit)
AgentAt(s, i) ==
    OccursAt(AgentLit, s, i) /\ i + 12 <= Len(s) /\ s[i + 12] \in Digits

\* a variant with re.match in place of re.search: the pattern is tried at
\* the start of the text only
SearchAgentThen_anchored(token, s) ==
    /\ AgentAt(s, 1)
    /\ \E j \in 14..Len(s) :
          /\ OccursAt(token, s, j)
          /\ \A k \in 14..(j - 1) : s[k] # 10

\* re.search(r'Agent agent_\d+.*' + token, s) finds a match: an agent
\* identifier, then any characters except a line feed, then the token
SearchAgentThen(token, s) ==
    \E i \in 1..Len(s) :
        /\ AgentAt(s, i)
        /\ \E j \in (i + 13)..Len(s) :
              /\ OccursAt(token, s, j)
              /\ \A k \in (i + 13)..(j - 1) : s[k] # 10

\* a variant with re.match in place of re.search: the identifier is looked
\* for at the start of the text only
AgentId_anchored(s) ==
    IF AgentAt(s, 1) THEN Slice(s, 7, SkipDigits(s, 13)) ELSE Unknown

\* agent_match = re.search(r'Agent (agent_\d+)', s);
\* agent_match.group(1) if agent_match else 'unknown'
AgentId(s) ==
    LET at == {i \in 1..Len(s) : AgentAt(s, i)}
    IN  IF at = {} THEN Unknown
        ELSE LET i == SetMin(at)
             IN  Slice(s, i + 6, SkipDigits(s, i + 12))

\* a variant that does not stop at the '\n\nMetrics:' delimiter
ResponseText_to_end(s) ==
    Strip(PySlice(s, Find(ResponseLit, s) + 9, Len(s)))

\* lines 114-116: the response body
ResponseText(s) ==
    LET response_start == Find(ResponseLit, s) + 9
        response_end == IF Contains(MetricsDelim, s)
                        THEN Find(MetricsDelim, s) ELSE Len(s)
    IN  Strip(PySlice(s, response_start, response_end))

\* lines 128-129: the metrics body
MetricsText(s) ==
    LET metrics_start == Find(MetricsLit, s) + 8
    IN  Strip(PySlice(s, metrics_start, Len(s)))

\* lines 144-146, one element of knowledge_data: the statement raises
\* (the membership test on a value that is not iterable, or the item
\* assignment on a str or a list)
KnowledgeItemRaises(item) ==
    \/ InOpRaises(item)
    \/ item.t \in {"str", "list"} /\ InOp(ContentKey, item)

\* lines 144-146, one element of knowledge_data that does not raise
KnowledgeItemCleaned(item) ==
    IF item.t = "dict" /\ ContentKey \in DOMAIN item.d
    THEN PyDict([item.d EXCEPT ![ContentKey] = clean_swarm_text(item.d[ContentKey])])
    ELSE item

\* lines 143-149: parsed is the outcome of json.loads; any exception of
\* the try block leaves the section as it was
KnowledgeFrom(before, parsed) ==
    IF ~parsed.ok THEN before
    ELSE IF \E k \in 1..Len(parsed.v.l) : KnowledgeItemRaises(parsed.v.l[k])
        THEN before
    ELSE [k \in 1..Len(parsed.v.l) |-> KnowledgeItemCleaned(parsed.v.l[k])]

\* lines 139-142: knowledge_start is text.find('[')
KnowledgeAt(before, s, knowledge_start) ==
    IF knowledge_start = -1 THEN before
    ELSE KnowledgeFrom(before, JsonLoads(PySlice(s, knowledge_start, Len(s))))

\* lines 139-149: the value of content_sections['collective_knowledge']
\* after the knowledge branch ran on text s, given its value before
KnowledgeAfter(before, s) == KnowledgeAt(before, s, Find(<<91>>, s))

\* lines 93-98
InitialSections ==
    [swarm_status |-> PyNone, agent_responses |-> <<>>, metrics |-> <<>>,
     collective_knowledge |-> <<>>]

Returned(cs) == [raised |-> "none", cs |-> cs]
Raised(e, cs) == [raised |-> e, cs |-> cs]

\* a variant that keeps one entry per agent: a response or metrics entry
\* replaces the entry the same agent_id already has
ExtractRest_one_per_agent(cs, s) ==
    LET id == AgentId(s)
        Other(e) == e.agent_id # id
    IN  IF SearchAgentThen(ResponseLit, s)
        THEN [cs EXCEPT !.agent_responses =
                 Append(SelectSeq(@, Other),
                        [agent_id |-> id,
                         response |-> clean_swarm_text(PyStr(ResponseText(s))).s])]
        ELSE IF SearchAgentThen(MetricsLit, s)
        THEN [cs EXCEPT !.metrics =
                 Append(SelectSeq(@, Other),
                        [agent_id |-> id,
                         metrics |-> clean_swarm_text(PyStr(MetricsText(s))).s])]
        ELSE IF Contains(KnowledgeLit, s)
        THEN [cs EXCEPT !.collective_knowledge = KnowledgeAfter(@, s)]
        ELSE cs

\* a variant that tests the metrics pattern before the response pattern
ExtractRest_metrics_first(cs, s) ==
    IF SearchAgentThen(MetricsLit, s)
    THEN [cs EXCEPT !.metrics =
             Append(@, [agent_id |-> AgentId(s),
                        metrics |-> clean_swarm_text(PyStr(MetricsText(s))).s])]
    ELSE IF SearchAgentThen(ResponseLit, s)
    THEN [cs EXCEPT !.agent_responses =
             Append(@, [agent_id |-> AgentId(s),
                        response |-> clean_swarm_text(PyStr(ResponseText(s))).s])]
    ELSE IF Contains(KnowledgeLit, s)
    THEN [cs EXCEPT !.collective_knowledge = KnowledgeAfter(@, s)]
    ELSE cs

\* lines 109-149: the elif chain after the status test, on a text s that
\* is a string: the accumulator afterwards
ExtractRest(cs, s) ==
    IF SearchAgentThen(ResponseLit, s)
    THEN [cs EXCEPT !.agent_responses =
             Append(@, [agent_id |-> AgentId(s),
                        response |-> clean_swarm_text(PyStr(ResponseText(s))).s])]
    ELSE IF SearchAgentThen(MetricsLit, s)
    THEN [cs EXCEPT !.metrics =
             Append(@, [agent_id |-> AgentId(s),
                        metrics |-> clean_swarm_text(PyStr(MetricsText(s))).s])]
    ELSE IF Contains(KnowledgeLit, s)
    THEN [cs EXCEPT !.collective_knowledge = KnowledgeAfter(@, s)]
    ELSE cs

\* a variant whose response test is an independent if instead of an elif:
\* a status fragment is examined by the rest of the chain as well
extract_item_fallthrough(cs, item) ==
    IF ~HasText(item) THEN Returned(cs)
    ELSE IF InOpRaises(item.d[TextKey]) THEN Raised("TypeError", cs)
    ELSE IF ~IsStr(item.d[TextKey])
        THEN Raised("TypeError",
                    IF InOp(SwarmStatusLit, item.d[TextKey])
                    THEN [cs EXCEPT !.swarm_status = clean_swarm_text(item.d[TextKey])]
                    ELSE cs)
    ELSE IF InOp(SwarmStatusLit, item.d[TextKey])
        THEN Returned(ExtractRest(
                 [cs EXCEPT !.swarm_status = clean_swarm_text(item.d[TextKey])],
                 item.d[TextKey].s))
    ELSE Returned(ExtractRest(cs, item.d[TextKey].s))

\* a variant that keeps the first status: a status fragment sets
\* swarm_status only while it is None
extract_item_first_status(cs, item) ==
    IF ~HasText(item) THEN Returned(cs)
    ELSE IF InOpRaises(item.d[TextKey]) THEN Raised("TypeError", cs)
    ELSE IF InOp(SwarmStatusLit, item.d[TextKey])
        THEN Returned(IF cs.swarm_status = PyNone
                      THEN [cs EXCEPT !.swarm_status = clean_swarm_text(item.d[TextKey])]
                      ELSE cs)
    ELSE IF ~IsStr(item.d[TextKey]) THEN Raised("TypeError", cs)
    ELSE Returned(ExtractRest(cs, item.d[TextKey].s))

\* lines 101-149: one iteration of the loop on item, from accumulator cs:
\* the accumulator afterwards and the exception that left the loop, if any
extract_item(cs, item) ==
    IF ~HasText(item) THEN Returned(cs)
    \* 'Swarm Status' in text, for a text that is not iterable
    ELSE IF InOpRaises(item.d[TextKey]) THEN Raised("TypeError", cs)
    ELSE IF InOp(SwarmStatusLit, item.d[TextKey])
        THEN Returned([cs EXCEPT !.swarm_status = clean_swarm_text(item.d[TextKey])])
    \* re.search on a text that is a list or a dict
    ELSE IF ~IsStr(item.d[TextKey]) THEN Raised("TypeError", cs)
    ELSE Returned(ExtractRest(cs, item.d[TextKey].s))

\* lines 100-151: the loop from element k of items on, from accumulator cs
RECURSIVE ExtractFrom(_, _, _)
\* r is the outcome of the iteration on element k
ExtractNext(r, items, k) ==
    IF r.raised # "none" THEN r ELSE ExtractFrom(r.cs, items, k + 1)

ExtractFrom(cs, items, k) ==
    IF k > Len(items) THEN Returned(cs)
    ELSE ExtractNext(extract_item(cs, items[k]), items, k)

\* extract_swarm_content(data) for a list data: the record returned, and
\* the exception raised if any
extract_swarm_content(data) == ExtractFrom(InitialSections, data.l, 1)

(***************************************************************************)
(* format_swarm_summary (lines 154-195)                                    *)
(***************************************************************************)
\* line 167: 'SWARM ANALYSIS SUMMARY'
SummaryTitle ==
    <<83, 87, 65, 82, 77, 32, 65, 78, 65, 76, 89, 83, 73, 83, 32, 83, 85,
    77, 77, 65, 82, 89>>

\* the character c repeated n times
RECURSIVE Repeat(_, _)
Repeat(c, n) == IF n <= 0 THEN <<>> ELSE <<c>> \o Repeat(c, n - 1)

\* line 168: "=" * 60
TitleRuleLength == 60
TitleRule == Repeat(61, TitleRuleLength)
\* lines 172, 177, 189: "-" * 40
SectionRuleLength == 40
SectionRule == Repeat(45, SectionRuleLength)
\* line 171: '\nSWARM STATUS:'
StatusHeader ==
    <<10, 83, 87, 65, 82, 77, 32, 83, 84, 65, 84, 85, 83, 58>>
\* line 176: '\nAGENT RESPONSES:'
ResponsesHeader ==
    <<10, 65, 71, 69, 78, 84, 32, 82, 69, 83, 80, 79, 78, 83, 69, 83, 58>>
\* line 188: '\n\nPERFORMANCE METRICS:'
MetricsHeader ==
    <<10, 10, 80, 69, 82, 70, 79, 82, 77, 65, 78, 67, 69, 32, 77, 69, 84,
    82, 73, 67, 83, 58>>
\* line 183: '...'
Ellipsis ==
    <<46, 46, 46>>

\* bool(v) for the values the members hold
Truthy(v) ==
    CASE v.t = "none" -> FALSE
      [] v.t = "str" -> v.s # <<>>
      [] v.t = "list" -> v.l # <<>>
      [] v.t = "dict" -> DOMAIN v.d # {}
      [] OTHER -> TRUE

\* lines 180, 192: f"\n{agent_id}:"
AgentLine(agent_id) == <<10>> \o agent_id \o <<58>>

\* a variant that truncates a response of exactly the maximum length too
ShownResponse_inclusive(response_text, max_len) ==
    IF Len(response_text) >= max_len
    THEN PySlice(response_text, 0, max_len) \o Ellipsis
    ELSE response_text

\* lines 181-185: the line appended for a response
ShownResponse(response_text, max_len) ==
    IF Len(response_text) > max_len
    THEN PySlice(response_text, 0, max_len) \o Ellipsis
    ELSE response_text

\* lines 170-173
StatusLines(ec) ==
    IF Truthy(ec.swarm_status)
    THEN <<StatusHeader, SectionRule, ec.swarm_status.s>>
    ELSE <<>>

\* lines 175-185
ResponseLines(ec, max_len) ==
    IF ec.agent_responses # <<>>
    THEN <<ResponsesHeader, SectionRule>>
         \o Concat([k \in 1..Len(ec.agent_responses) |->
                <<AgentLine(ec.agent_responses[k].agent_id),
                  ShownResponse(ec.agent_responses[k].response, max_len)>>])
    ELSE <<>>

\* lines 187-193
MetricsLines(ec) ==
    IF ec.metrics # <<>>
    THEN <<MetricsHeader, SectionRule>>
         \o Concat([k \in 1..Len(ec.metrics) |->
                <<AgentLine(ec.metrics[k].agent_id), ec.metrics[k].metrics>>])
    ELSE <<>>

\* a variant that puts the metrics block before the responses block
SummaryLines_metrics_first(ec, max_len) ==
    <<SummaryTitle, TitleRule>>
    \o StatusLines(ec) \o MetricsLines(ec) \o ResponseLines(ec, max_len)

\* lines 165-193: the list summary when the function returns
SummaryLines(ec, max_len) ==
    <<SummaryTitle, TitleRule>>
    \o StatusLines(ec) \o ResponseLines(ec, max_len) \o MetricsLines(ec)

\* line 195: "\n".join(lines)
RECURSIVE JoinLines(_)
JoinLines(lines) ==
    IF lines = <<>> THEN <<>>
    ELSE IF Len(lines) = 1 THEN lines[1]
    ELSE lines[1] \o <<10>> \o JoinLines(Tail(lines))

\* format_swarm_summary(extracted_content, max_response_length)
format_swarm_summary(ec, max_len) == PyStr(JoinLines(SummaryLines(ec, max_len)))

\* the formatter has not been called
FormatIdle ==
    /\ extracted_content = PyNone
    /\ max_response_length = 0
    /\ summary = <<>>
    /\ formatted = PyNone

(***************************************************************************)
(* display_swarm_analysis (lines 226-263)                                  *)
(***************************************************************************)
\* the key 'content'
ContentPayloadKey == ContentKey

\* swarm_result.get('content') for a dict swarm_result
GetContent(result) ==
    IF ContentPayloadKey \in DOMAIN result.d THEN result.d[ContentPayloadKey]
    ELSE PyNone

\* a variant that treats an unparsable string like any other payload
ResolvePayload_dropping(content) ==
    IF content.t = "list" THEN content
    ELSE IF content.t = "str" /\ JsonLoads(content.s).ok THEN JsonLoads(content.s).v
    ELSE PyList(<<>>)

\* lines 238-248: json_data for the payload content
ResolvePayload(content) ==
    IF content.t = "list" THEN content
    ELSE IF content.t = "str"
        THEN IF JsonLoads(content.s).ok THEN JsonLoads(content.s).v
             ELSE PyList(<<PyDict(TextKey :> content)>>)
    ELSE PyList(<<>>)

\* for item in v  raises TypeError: v is not iterable
IterRaises(v) == v.t \in {"int", "none", "bool", "float"}

\* the keys of a dict as a sequence (the dict of the model keeps no
\* insertion order; the dicts that are iterated hold at most one key)
RECURSIVE KeysOf(_)
KeysOf(ks) ==
    IF ks = {} THEN <<>>
    ELSE LET k == CHOOSE x \in ks : TRUE IN <<PyStr(k)>> \o KeysOf(ks \ {k})

\* the elements  for item in v  visits, for an iterable v: the elements of
\* a list, the characters of a str, the keys of a dict
IterItems(v) ==
    CASE v.t = "list" -> v.l
      [] v.t = "str" -> [k \in 1..Len(v.s) |-> PyStr(<<v.s[k]>>)]
      [] v.t = "dict" -> KeysOf(DOMAIN v.d)

\* lines 259-262: the returned dictionary
DisplayResult(cd, ec) == [cleaned_data |-> cd, extracted_content |-> ec]

\* "\n".join(summary) raises TypeError: the status line is no str
FormatRaises(ec) == Truthy(ec.swarm_status) /\ ~IsStr(ec.swarm_status)

\* display_swarm_analysis has not been called
DisplayIdle ==
    /\ swarm_result = PyNone
    /\ verbose = FALSE
    /\ stdout = <<>>
    /\ returned = PyNone

\* no invocations run side by side
CallsIdle == calls = <<>>

\* the e-commerce server is not running
ShopIdle ==
    /\ conn = PyNone
    /\ initialize_count = 0
    /\ request = PyNone
    /\ reply = PyNone
    /\ written = <<>>

\* create_jupyter_notebook has not been called
NotebookIdle ==
    /\ markdown_content = PyNone
    /\ source_lines = <<>>
    /\ line_no = 0
    /\ cells = <<>>
    /\ current_cell = <<>>
    /\ in_code_block = FALSE

\* save_cleaned_swarm_output has not been called
SaveIdle ==
    /\ save_input = PyNone
    /\ format_output = FALSE
    /\ output_file = PyNone

(***************************************************************************)
(* json.dump(obj, f, indent, ensure_ascii=False) and the file (lines       *)
(* 219-223)                                                                *)
(***************************************************************************)
\* '0123456789abcdef'
HexChars == <<48, 49, 50, 51, 52, 53, 54, 55, 56, 57, 97, 98, 99, 100, 101, 102>>

\* the text of one character inside a string literal: the escapes
\* \" \\ \n \r \t \b \f, \u00xx for the other characters below U+0020,
\* and the character itself otherwise
EscapeChar(c) ==
    CASE c = 34 -> <<92, 34>>
      [] c = 92 -> <<92, 92>>
      [] c = 10 -> <<92, 110>>
      [] c = 13 -> <<92, 114>>
      [] c = 9 -> <<92, 116>>
      [] c = 8 -> <<92, 98>>
      [] c = 12 -> <<92, 102>>
      [] c < 32 /\ c \notin {8, 9, 10, 12, 13} ->
            <<92, 117, 48, 48, HexChars[(c \div 16) + 1], HexChars[(c % 16) + 1]>>
      [] OTHER -> <<c>>

\* a variant that writes the characters of a string as they are
DumpStr_unescaped(s) == <<34>> \o s \o <<34>>

\* a string as a JSON string literal
DumpStr(s) == <<34>> \o Concat([k \in 1..Len(s) |-> EscapeChar(s[k])]) \o <<34>>

\* the decimal digits of a natural number
RECURSIVE DumpNat(_)
DumpNat(n) == IF n < 10 THEN <<48 + n>> ELSE DumpNat(n \div 10) \o <<48 + (n % 10)>>

DumpInt(n) == IF n < 0 THEN <<45>> \o DumpNat(-n) ELSE DumpNat(n)

\* the parts joined by sep
RECURSIVE JoinWith(_, _)
JoinWith(parts, sep) ==
    IF parts = <<>> THEN <<>>
    ELSE IF Len(parts) = 1 THEN parts[1]
    ELSE parts[1] \o sep \o JoinWith(Tail(parts), sep)

\* indent=2
IndentWidth == 2

\* the line break and indentation before an element at nesting depth
\* level; nothing when the output is compact (indent=None)
NewlineIndent(indented, level) ==
    IF indented THEN <<10>> \o Repeat(32, IndentWidth * level) ELSE <<>>

\* the separator between two elements at nesting depth level
ItemSeparator(indented, level) ==
    IF indented THEN <<44>> \o NewlineIndent(indented, level) ELSE <<44, 32>>

\* the text of value v at nesting depth level; a float is written as its
\* literal; the keys of a dict are written in the order of KeysOf
RECURSIVE JsonDump(_, _, _)
JsonDump(v, indented, level) ==
    CASE v.t = "none" -> JsonNull
      [] v.t = "bool" -> IF v.b THEN JsonTrue ELSE JsonFalse
      [] v.t = "int" -> DumpInt(v.n)
      [] v.t = "float" -> v.lex
      [] v.t = "str" -> DumpStr(v.s)
      [] v.t = "list" ->
            IF v.l = <<>> THEN <<91, 93>>
            ELSE <<91>> \o NewlineIndent(indented, level + 1)
                 \o JoinWith([k \in 1..Len(v.l) |-> JsonDump(v.l[k], indented, level + 1)],
                             ItemSeparator(indented, level + 1))
                 \o NewlineIndent(indented, level) \o <<93>>
      [] v.t = "dict" ->
            IF DOMAIN v.d = {} THEN <<123, 125>>
            ELSE <<123>> \o NewlineIndent(indented, level + 1)
                 \o JoinWith([k \in 1..Cardinality(DOMAIN v.d) |->
                                 DumpStr(KeysOf(DOMAIN v.d)[k].s) \o <<58, 32>>
                                 \o JsonDump(v.d[KeysOf(DOMAIN v.d)[k].s], indented, level + 1)],
                             ItemSeparator(indented, level + 1))
                 \o NewlineIndent(indented, level) \o <<125>>

\* json.dumps(v, indent=2 if indented else None, ensure_ascii=False)
JsonDumps(v, indented) == JsonDump(v, indented, 0)

\* the code points that UTF-8 cannot encode: the surrogates
Surrogates == \hD800..\hDFFF

\* the positions of s whose character the file's encoding rejects
Unencodable(s) == {k \in 1..Len(s) : s[k] \in Surrogates}

(***************************************************************************)
(* Inputs of the text cleaner                                              *)
(***************************************************************************)
MaxCleanChunks == 3

\* pieces the input strings are assembled from
CleanChunks ==
    { EscPrefix,                       \* ESC [
      EscPrefix \o <<48, 109>>,        \* ESC [ 0 m
      EscapedPrefix,                   \* \u001b[
      EscapedPrefix \o <<48, 109>>,    \* \u001b[0m
      <<48>>, <<59>>, <<109>>,         \* 0 ; m
      <<97>>,                          \* a
      <<\h256D>>,                      \* rounded corner, a key
      <<\h2500>>,                      \* horizontal line, a key
      <<\h2551>>,                      \* double vertical line, a key
      <<\h2550>>,                      \* double horizontal line, a key
      <<\h250C>> }                     \* single-line corner, no key

CleanStrings == {Concat(cs) : cs \in SeqsUpTo(CleanChunks, MaxCleanChunks)}

NonStrings ==
    { PyInt(5), PyNone, PyList(<<>>), PyList(<<PyStr(<<\h2500>>)>>),
      PyDict([text |-> PyStr(EscPrefix \o <<109>>)]) }

CleanInputs == {PyStr(s) : s \in CleanStrings} \cup NonStrings

(***************************************************************************)
(* Inputs of the batch cleaner and of the extractor                        *)
(***************************************************************************)
MaxFragments == 2

\* 'Swarm Status: active'
StatusActive == SwarmStatusLit \o <<58, 32, 97, 99, 116, 105, 118, 101>>
\* 'Agent agent_1 Response: Hello'
ResponseHello ==
    AgentLit \o <<49, 32>> \o ResponseLit \o <<32, 72, 101, 108, 108, 111>>
\* '\n\nMetrics: latency=5ms'
MetricsTail ==
    MetricsDelim \o <<32, 108, 97, 116, 101, 110, 99, 121, 61, 53, 109, 115>>
\* 'Agent agent_2 Metrics: ok'
MetricsOk == AgentLit \o <<50, 32>> \o MetricsLit \o <<32, 111, 107>>
\* 'Collective Knowledge: '
KnowledgeHead == KnowledgeLit \o <<32>>
\* '[{"content": "-x"}]' with U+2500 for the dash: an array that parses
KnowledgeArray ==
    <<91, 123, 34>> \o ContentKey \o <<34, 58, 32, 34, \h2500, 120, 34, 125, 93>>
\* '[oops': no JSON
KnowledgeBroken == <<91, 111, 111, 112, 115>>
\* ESC [ 1 m, then U+250C and U+2500
AnsiBox == EscPrefix \o <<49, 109, \h250C, \h2500>>
\* '["' and 'x"]': around a text they make it one JSON array of one string
ArrayOpen == <<91, 34>>
ArrayClose == <<120, 34, 93>>

\* a fragment text is a head followed by a tail
TextHeads ==
    { <<>>, StatusActive, ResponseHello, KnowledgeHead, ArrayOpen \o KnowledgeHead }
TextTails ==
    { <<>>, ResponseHello, MetricsTail, KnowledgeArray, KnowledgeBroken, ArrayClose }
FragmentTexts == {h \o tl : h \in TextHeads, tl \in TextTails}

\* the key 'id'
IdKey == <<105, 100>>

\* elements that are no mapping, have no 'text', or hold a 'text' that is
\* not a string; a metrics fragment; and a fragment with a second field
\* whose text needs cleaning
OtherItems ==
    { PyInt(5),
      PyDict(IdKey :> PyInt(1)),
      PyDict(TextKey :> PyInt(5)),
      PyDict(TextKey :> PyNone),
      PyDict(TextKey :> PyList(<<PyStr(SwarmStatusLit)>>)),
      PyDict(TextKey :> PyStr(MetricsOk)),
      PyDict((TextKey :> PyStr(AnsiBox \o StatusActive)) @@ (IdKey :> PyInt(1))) }

Fragments == {PyDict(TextKey :> PyStr(s)) : s \in FragmentTexts} \cup OtherItems

ExtractInputs == {PyList(l) : l \in SeqsUpTo(Fragments, MaxFragments)}

(***************************************************************************)
(* Text cleaner: one call, then a second call on the result                *)
(***************************************************************************)
InitClean ==
    /\ pc = "clean_start"
    /\ CallsIdle
    /\ ShopIdle
    /\ NotebookIdle
    /\ text \in CleanInputs
    /\ cleaned = PyNone
    /\ recleaned = PyNone
    /\ json_data = PyList(<<>>)
    /\ cleaned_data = PyNone
    /\ extract_arg = PyNone
    /\ idx = 0
    /\ content_sections = InitialSections
    /\ raised = "none"
    /\ extracted = PyNone
    /\ FormatIdle
    /\ DisplayIdle
    /\ SaveIdle

CleanText ==
    /\ pc = "clean_start"
    /\ cleaned' = clean_swarm_text(text)
    /\ pc' = "clean_once"
    /\ UNCHANGED <<otherVars, displayVars, saveVars, text, recleaned, extractVars, formatVars>>

CleanAgain ==
    /\ pc = "clean_once"
    /\ recleaned' = clean_swarm_text(cleaned)
    /\ pc' = "clean_twice"
    /\ UNCHANGED <<otherVars, displayVars, saveVars, text, cleaned, extractVars, formatVars>>

NextClean == CleanText \/ CleanAgain

SpecClean == InitClean /\ [][NextClean]_vars

(***************************************************************************)
(* Batch cleaner and extractor: the caller either passes json_data through *)
(* clean_swarm_output and extracts from the result (as                     *)
(* display_swarm_analysis does, lines 250-254), or extracts from json_data *)
(* directly.                                                               *)
(***************************************************************************)
Init ==
    /\ pc = "start"
    /\ CallsIdle
    /\ ShopIdle
    /\ NotebookIdle
    /\ json_data \in ExtractInputs
    /\ cleaned_data = PyNone
    /\ extract_arg = PyNone
    /\ idx = 0
    /\ content_sections = InitialSections
    /\ raised = "none"
    /\ extracted = PyNone
    /\ FormatIdle
    /\ DisplayIdle
    /\ SaveIdle
    /\ text = PyNone
    /\ cleaned = PyNone
    /\ recleaned = PyNone

\* cleaned_data = clean_swarm_output(json_data)
BatchClean ==
    /\ pc = "start"
    /\ cleaned_data' = clean_swarm_output(json_data)
    /\ json_data' = input_after_clean(json_data)
    /\ pc' = "batch_done"
    /\ UNCHANGED <<otherVars, displayVars, saveVars, extract_arg, idx, content_sections, raised,
                   extracted, cleanVars, formatVars>>

\* extract_swarm_content(cleaned_data) is entered: lines 93-98
ExtractCleaned ==
    /\ pc = "batch_done"
    /\ extract_arg' = cleaned_data
    /\ content_sections' = InitialSections
    /\ idx' = 1
    /\ pc' = "extract_loop"
    /\ UNCHANGED <<otherVars, displayVars, saveVars, json_data, cleaned_data, raised, extracted, cleanVars, formatVars>>

\* extract_swarm_content(json_data) is entered: lines 93-98
ExtractRaw ==
    /\ pc = "start"
    /\ extract_arg' = json_data
    /\ content_sections' = InitialSections
    /\ idx' = 1
    /\ pc' = "extract_loop"
    /\ UNCHANGED <<otherVars, displayVars, saveVars, json_data, cleaned_data, raised, extracted, cleanVars, formatVars>>

\* r is the outcome of one iteration: an exception leaves the function
ItemOutcome(r) ==
    /\ content_sections' = r.cs
    /\ raised' = r.raised
    /\ pc' = IF r.raised = "none" THEN "extract_loop" ELSE "extract_raised"

\* one iteration of  for item in json_data  (lines 100-149)
ExtractItem ==
    /\ pc = "extract_loop"
    /\ idx <= Len(extract_arg.l)
    /\ ItemOutcome(extract_item(content_sections, extract_arg.l[idx]))
    /\ idx' = idx + 1
    /\ UNCHANGED <<otherVars, displayVars, saveVars, json_data, cleaned_data, extract_arg, extracted, cleanVars, formatVars>>

\* return content_sections  (line 151)
ExtractReturn ==
    /\ pc = "extract_loop"
    /\ idx > Len(extract_arg.l)
    /\ extracted' = content_sections
    /\ pc' = "extract_done"
    /\ UNCHANGED <<otherVars, displayVars, saveVars, json_data, cleaned_data, extract_arg, idx, content_sections,
                   raised, cleanVars, formatVars>>

Next == BatchClean \/ ExtractCleaned \/ ExtractRaw \/ ExtractItem \/ ExtractReturn

Spec == Init /\ [][Next]_vars

(***************************************************************************)
(* Formatter: one call of format_swarm_summary on an extracted record      *)
(***************************************************************************)
MaxResponses == 2
MaxMetrics == 1

\* 'abcdefghijk'
Letters == [k \in 1..11 |-> 96 + k]
\* response bodies of 0, 1, 2, 3, 10 and 11 characters, and one of three
\* characters outside ASCII (U+00E9, U+4E2D, U+1F600)
ResponseBodies ==
    {SubSeq(Letters, 1, n) : n \in {0, 1, 2, 3, 10, 11}}
    \cup {<<233, 20013, 128512>>}
\* 'agent_1'
FormatAgent == <<97, 103, 101, 110, 116, 95, 49>>
FormatResponses == {[agent_id |-> FormatAgent, response |-> b] : b \in ResponseBodies}
\* 'latency=5ms'
FormatMetrics == {[agent_id |-> FormatAgent,
                   metrics |-> <<108, 97, 116, 101, 110, 99, 121, 61, 53, 109, 115>>]}
FormatStatuses == {PyNone, PyStr(<<>>), PyStr(StatusActive)}
\* the default of the parameter (line 154)
DefaultMaxResponseLength == 500
FormatLengths == {0, 1, 2, 3, 10, DefaultMaxResponseLength}
FormatInputs ==
    {[swarm_status |-> st, agent_responses |-> rs, metrics |-> ms,
      collective_knowledge |-> <<>>] :
        st \in FormatStatuses,
        rs \in SeqsUpTo(FormatResponses, MaxResponses),
        ms \in SeqsUpTo(FormatMetrics, MaxMetrics)}

InitFormat ==
    /\ pc = "format_start"
    /\ CallsIdle
    /\ ShopIdle
    /\ NotebookIdle
    /\ extracted_content \in FormatInputs
    /\ max_response_length \in FormatLengths
    /\ summary = <<>>
    /\ formatted = PyNone
    /\ text = PyNone
    /\ cleaned = PyNone
    /\ recleaned = PyNone
    /\ json_data = PyList(<<>>)
    /\ cleaned_data = PyNone
    /\ extract_arg = PyNone
    /\ idx = 0
    /\ content_sections = InitialSections
    /\ raised = "none"
    /\ extracted = PyNone
    /\ DisplayIdle
    /\ SaveIdle

\* the call of format_swarm_summary, to its return
FormatSummary ==
    /\ pc = "format_start"
    /\ summary' = SummaryLines(extracted_content, max_response_length)
    /\ formatted' = format_swarm_summary(extracted_content, max_response_length)
    /\ pc' = "format_done"
    /\ UNCHANGED <<otherVars, displayVars, saveVars, extracted_content, max_response_length, cleanVars, extractVars>>

NextFormat == FormatSummary

SpecFormat == InitFormat /\ [][NextFormat]_vars

(***************************************************************************)
(* Pipeline entry point: one call of display_swarm_analysis                *)
(***************************************************************************)
MaxDisplayFragments == 2

\* 'Swarm \x1b[0mStatus: up': the cleaner joins the two words
SplitStatus ==
    <<83, 119, 97, 114, 109, 32>> \o EscPrefix \o <<48, 109>>
    \o <<83, 116, 97, 116, 117, 115, 58, 32, 117, 112>>

DisplayFragments ==
    { PyDict(TextKey :> PyStr(StatusActive)),
      PyDict(TextKey :> PyStr(SplitStatus)),
      PyDict(TextKey :> PyStr(ResponseHello \o MetricsTail)),
      PyDict(TextKey :> PyStr(KnowledgeHead \o KnowledgeArray)),
      PyDict(TextKey :> PyInt(5)),
      PyDict(TextKey :> PyList(<<PyStr(SwarmStatusLit)>>)),
      PyInt(5) }

\* the text of a JSON array of one fragment whose text is s (s holds no
\* character that JSON escapes)
OneFragmentJson(s) ==
    <<91, 123, 34>> \o TextKey \o <<34, 58, 32, 34>> \o s \o <<34, 125, 93>>

\* payload strings: '5', 'null', 'true', '"ab"', '{"text": 1}', '', 'nope',
\* '[1, 2', '[]' and two arrays of one fragment
PayloadStrings ==
    { <<53>>, JsonNull, JsonTrue, <<34, 97, 98, 34>>,
      <<123, 34>> \o TextKey \o <<34, 58, 32, 49, 125>>,
      <<>>, <<110, 111, 112, 101>>, <<91, 49, 44, 32, 50>>, <<91, 93>>,
      OneFragmentJson(StatusActive), OneFragmentJson(ResponseHello) }

Payloads ==
    {PyList(l) : l \in SeqsUpTo(DisplayFragments, MaxDisplayFragments)}
    \cup {PyStr(s) : s \in PayloadStrings}
    \cup {PyInt(5), PyNone, PyBool(TRUE), PyDict(TextKey :> PyStr(StatusActive))}

\* a mapping with the payload under 'content', alone or beside another key;
\* mappings without 'content'; and values that are no mapping
DisplayInputs ==
    {PyDict(ContentPayloadKey :> c) : c \in Payloads}
    \cup {PyDict((ContentPayloadKey :> PyStr(s)) @@ (IdKey :> PyInt(1))) :
            s \in PayloadStrings}
    \cup {PyDict(<<>>), PyDict(IdKey :> PyInt(1))}
    \cup {PyNone, PyInt(5), PyStr(StatusActive),
          PyList(<<PyDict(TextKey :> PyStr(StatusActive))>>)}

InitDisplay ==
    /\ pc = "display_start"
    /\ CallsIdle
    /\ ShopIdle
    /\ NotebookIdle
    /\ swarm_result \in DisplayInputs
    /\ verbose \in BOOLEAN
    /\ stdout = <<>>
    /\ returned = PyNone
    /\ json_data = PyNone
    /\ cleaned_data = PyNone
    /\ extract_arg = PyNone
    /\ idx = 0
    /\ content_sections = InitialSections
    /\ raised = "none"
    /\ extracted = PyNone
    /\ text = PyNone
    /\ cleaned = PyNone
    /\ recleaned = PyNone
    /\ FormatIdle
    /\ SaveIdle

\* lines 237-248; swarm_result.get raises AttributeError for a value that
\* has no method get
DisplayResolve ==
    /\ pc = "display_start"
    /\ IF swarm_result.t # "dict"
       THEN /\ raised' = "AttributeError"
            /\ pc' = "display_raised"
            /\ UNCHANGED json_data
       ELSE /\ json_data' = ResolvePayload(GetContent(swarm_result))
            /\ pc' = "display_resolved"
            /\ UNCHANGED raised
    /\ UNCHANGED <<otherVars, cleaned_data, extract_arg, idx, content_sections, extracted,
                   cleanVars, formatVars, displayVars, saveVars>>

\* line 251: cleaned_data = clean_swarm_output(json_data)
DisplayClean ==
    /\ pc = "display_resolved"
    /\ IF IterRaises(json_data)
       THEN /\ raised' = "TypeError"
            /\ pc' = "display_raised"
            /\ UNCHANGED cleaned_data
       ELSE /\ cleaned_data' = clean_swarm_output(PyList(IterItems(json_data)))
            /\ pc' = "batch_done"
            /\ UNCHANGED raised
    /\ UNCHANGED <<otherVars, json_data, extract_arg, idx, content_sections, extracted,
                   cleanVars, formatVars, displayVars, saveVars>>

\* lines 257-258: print(format_swarm_summary(extracted_content))
DisplayReport ==
    /\ pc = "extract_done"
    /\ verbose
    /\ IF FormatRaises(extracted)
       THEN /\ raised' = "TypeError"
            /\ pc' = "display_raised"
            /\ UNCHANGED stdout
       ELSE /\ stdout' = Append(stdout,
                   format_swarm_summary(extracted, DefaultMaxResponseLength).s)
            /\ pc' = "display_reported"
            /\ UNCHANGED raised
    /\ UNCHANGED <<otherVars, swarm_result, verbose, returned, json_data, cleaned_data,
                   extract_arg, idx, content_sections, extracted,
                   cleanVars, formatVars, saveVars>>

\* a variant that hands out the extracted record only with the report
DisplayReturn_reported_only ==
    /\ \/ pc = "display_reported"
       \/ pc = "extract_done" /\ ~verbose
    /\ returned' = DisplayResult(cleaned_data,
                                 IF verbose THEN extracted ELSE InitialSections)
    /\ pc' = "display_done"
    /\ UNCHANGED <<otherVars, swarm_result, verbose, stdout, cleanVars, extractVars,
                   formatVars, saveVars>>

\* lines 260-263
DisplayReturn ==
    /\ \/ pc = "display_reported"
       \/ pc = "extract_done" /\ ~verbose
    /\ returned' = DisplayResult(cleaned_data, extracted)
    /\ pc' = "display_done"
    /\ UNCHANGED <<otherVars, swarm_result, verbose, stdout, cleanVars, extractVars,
                   formatVars, saveVars>>

NextDisplay ==
    \/ DisplayResolve \/ DisplayClean
    \/ ExtractCleaned \/ ExtractItem \/ ExtractReturn
    \/ DisplayReport \/ DisplayReturn

SpecDisplay == InitDisplay /\ [][NextDisplay]_vars

(***************************************************************************)
(* Persistence: one call of save_cleaned_swarm_output                      *)
(***************************************************************************)
MaxSaveFragments == 2

\* the text U+00E9 U+256D ESC [ 0 m " \ LF
MixedText == <<233, \h256D>> \o EscPrefix \o <<48, 109, 34, 92, 10>>

\* fragments with texts that need cleaning and escaping, a second field,
\* texts that are no string, nested values, a character outside the basic
\* plane, a lone surrogate, and elements that are no fragment
SaveFragments ==
    { PyDict((TextKey :> PyStr(MixedText)) @@ (IdKey :> PyInt(1))),
      PyDict(TextKey :> PyStr(<<1, 9, 97, 127, \h1F600>>)),
      PyDict(TextKey :> PyStr(<<\hD800>>)),
      PyDict(TextKey :> PyNone),
      PyDict(TextKey :> PyList(<<PyBool(TRUE), PyInt(-12),
                                PyDict(IdKey :> PyList(<<>>))>>)),
      PyDict(<<>>),
      PyInt(5) }

SaveSequences == {PyList(l) : l \in SeqsUpTo(SaveFragments, MaxSaveFragments)}

\* 'bad', '5', '{"text": 1}', ' [ ] ',
\* '[{"text": "\\u001b[0m\\u2500\\ud83d\\ude00"}]' and
\* '[{"text": "x", "text": "\\ud800"}]'
OtherSaveStrings ==
    { <<98, 97, 100>>, <<53>>,
      <<123, 34>> \o TextKey \o <<34, 58, 32, 49, 125>>,
      <<32, 91, 32, 93, 32>>,
      OneFragmentJson(EscapedPrefix \o <<48, 109, 92, 117, 50, 53, 48, 48,
                                         92, 117, 100, 56, 51, 100,
                                         92, 117, 100, 101, 48, 48>>),
      <<91, 123, 34>> \o TextKey \o <<34, 58, 32, 34, 120, 34, 44, 32, 34>>
          \o TextKey \o <<34, 58, 32, 34, 92, 117, 100, 56, 48, 48, 34, 125, 93>> }

\* a sequence, or a string: the encoding of a sequence, indented or
\* compact, or another string
SaveInputs ==
    SaveSequences
    \cup {PyStr(JsonDumps(f, i)) : f \in SaveSequences, i \in BOOLEAN}
    \cup {PyStr(s) : s \in OtherSaveStrings}

\* what the destination holds before the call, when it exists: 'old'
OldFile == <<111, 108, 100>>

InitSave ==
    /\ pc = "save_start"
    /\ CallsIdle
    /\ ShopIdle
    /\ NotebookIdle
    /\ save_input \in SaveInputs
    /\ format_output \in BOOLEAN
    /\ output_file \in {PyNone, PyStr(OldFile)}
    /\ json_data = PyNone
    /\ cleaned_data = PyNone
    /\ extract_arg = PyNone
    /\ idx = 0
    /\ content_sections = InitialSections
    /\ raised = "none"
    /\ extracted = PyNone
    /\ text = PyNone
    /\ cleaned = PyNone
    /\ recleaned = PyNone
    /\ FormatIdle
    /\ DisplayIdle

\* a variant that opens the destination for writing before it parses: the
\* file is created or truncated although the parse raises
SaveParse_open_first ==
    /\ pc = "save_start"
    /\ IF save_input.t = "str" /\ ~JsonLoads(save_input.s).ok
       THEN /\ raised' = "JSONDecodeError"
            /\ pc' = "save_raised"
            /\ output_file' = PyStr(<<>>)
            /\ UNCHANGED json_data
       ELSE /\ json_data' = IF save_input.t = "str"
                            THEN JsonLoads(save_input.s).v ELSE save_input
            /\ pc' = "save_parsed"
            /\ UNCHANGED <<raised, output_file>>
    /\ UNCHANGED <<otherVars, cleaned_data, extract_arg, idx, content_sections, extracted,
                   cleanVars, formatVars, displayVars, save_input, format_output>>

\* lines 210-213: parsed_data (held in json_data); json.loads raises
\* JSONDecodeError for a string that is no JSON document
SaveParse ==
    /\ pc = "save_start"
    /\ IF save_input.t = "str" /\ ~JsonLoads(save_input.s).ok
       THEN /\ raised' = "JSONDecodeError"
            /\ pc' = "save_raised"
            /\ UNCHANGED json_data
       ELSE /\ json_data' = IF save_input.t = "str"
                            THEN JsonLoads(save_input.s).v ELSE save_input
            /\ pc' = "save_parsed"
            /\ UNCHANGED raised
    /\ UNCHANGED <<otherVars, cleaned_data, extract_arg, idx, content_sections, extracted,
                   cleanVars, formatVars, displayVars, saveVars>>

\* line 216: cleaned_data = clean_swarm_output(parsed_data)
SaveClean ==
    /\ pc = "save_parsed"
    /\ IF IterRaises(json_data)
       THEN /\ raised' = "TypeError"
            /\ pc' = "save_raised"
            /\ UNCHANGED cleaned_data
       ELSE /\ cleaned_data' = clean_swarm_output(PyList(IterItems(json_data)))
            /\ pc' = "save_cleaned"
            /\ UNCHANGED raised
    /\ UNCHANGED <<otherVars, json_data, extract_arg, idx, content_sections, extracted,
                   cleanVars, formatVars, displayVars, saveVars>>

\* out is the text json.dump produces; the file is opened for writing
\* with encoding utf-8, and a character the encoding rejects raises
\* UnicodeEncodeError after a part of the text before it has been written
WriteFile(out) ==
    IF Unencodable(out) = {}
    THEN /\ output_file' = PyStr(out)
         /\ pc' = "save_done"
         /\ UNCHANGED raised
    ELSE /\ \E n \in 0..(SetMin(Unencodable(out)) - 1) :
               output_file' = PyStr(SubSeq(out, 1, n))
         /\ raised' = "UnicodeEncodeError"
         /\ pc' = "save_raised"

\* lines 219-223
SaveWrite ==
    /\ pc = "save_cleaned"
    /\ WriteFile(JsonDumps(cleaned_data, format_output))
    /\ UNCHANGED <<otherVars, save_input, format_output, json_data, cleaned_data,
                   extract_arg, idx, content_sections, extracted,
                   cleanVars, formatVars, displayVars>>

NextSave == SaveParse \/ SaveClean \/ SaveWrite

SpecSave == InitSave /\ [][NextSave]_vars

(***************************************************************************)
(* Classification: the batch cleaner and the extractor on fragments whose  *)
(* texts put the tokens of the patterns in different places                *)
(***************************************************************************)
MaxClassifyFragments == 2

\* 'Response: early\n'
EarlyResponse ==
    <<82, 101, 115, 112, 111, 110, 115, 101, 58, 32, 101, 97, 114, 108,
    121, 10>>
\* 'Agent agent_9 said\n'
EarlyAgent ==
    <<65, 103, 101, 110, 116, 32, 97, 103, 101, 110, 116, 95, 57, 32, 115,
    97, 105, 100, 10>>
\* 'x\n\nMetrics: m\n'
EarlyDelimiter ==
    <<120, 10, 10, 77, 101, 116, 114, 105, 99, 115, 58, 32, 109, 10>>
\* 'agent_1 Response: x': no 'Agent ' before the identifier
BareIdResponse ==
    <<97, 103, 101, 110, 116, 95, 49, 32, 82, 101, 115, 112, 111, 110,
    115, 101, 58, 32, 120>>
\* 'Agent agent_1\nResponse: x': a line feed before the token
SplitLineResponse ==
    <<65, 103, 101, 110, 116, 32, 97, 103, 101, 110, 116, 95, 49, 10, 82,
    101, 115, 112, 111, 110, 115, 101, 58, 32, 120>>
\* 'Agent agent_2 Response:  real '
PaddedResponse ==
    <<65, 103, 101, 110, 116, 32, 97, 103, 101, 110, 116, 95, 50, 32, 82,
    101, 115, 112, 111, 110, 115, 101, 58, 32, 32, 114, 101, 97, 108, 32>>
\* 'Agent agent_2 Response: x Metrics: y': both patterns match
ResponseAndMetrics ==
    <<65, 103, 101, 110, 116, 32, 97, 103, 101, 110, 116, 95, 50, 32, 82,
    101, 115, 112, 111, 110, 115, 101, 58, 32, 120, 32, 77, 101, 116, 114,
    105, 99, 115, 58, 32, 121>>
\* 'Agent agent_2 Metrics:  ok '
PaddedMetrics ==
    <<65, 103, 101, 110, 116, 32, 97, 103, 101, 110, 116, 95, 50, 32, 77,
    101, 116, 114, 105, 99, 115, 58, 32, 32, 111, 107, 32>>
\* '[1] '
BracketBefore ==
    <<91, 49, 93, 32>>

\* '[5, {"content": "x"}]': a number among the elements
NumberArray ==
    <<91, 53, 44, 32, 123, 34, 99, 111, 110, 116, 101, 110, 116, 34, 58,
    32, 34, 120, 34, 125, 93>>
\* '["a", {"id": 1}, {"content": "\u2500x"}]' with the box character itself
MixedArray ==
    <<91, 34, 97, 34, 44, 32, 123, 34, 105, 100, 34, 58, 32, 49, 125, 44,
    32, 123, 34, 99, 111, 110, 116, 101, 110, 116, 34, 58, 32, 34, 9472,
    120, 34, 125, 93>>

ClassifyPrefixes == { EarlyResponse, EarlyAgent, EarlyDelimiter }
\* the texts that are put after a prefix as well
PrefixedCores ==
    { BareIdResponse, PaddedResponse, ResponseHello \o MetricsTail,
      ResponseAndMetrics, PaddedMetrics, KnowledgeHead \o KnowledgeArray }
ClassifyCores ==
    PrefixedCores
    \cup { SplitLineResponse,
           BracketBefore \o KnowledgeHead \o KnowledgeArray,
           KnowledgeHead \o NumberArray, KnowledgeHead \o MixedArray,
           StatusActive, <<112, 108, 97, 105, 110>> }
ClassifyTexts ==
    ClassifyCores
    \cup {pre \o core : pre \in ClassifyPrefixes, core \in PrefixedCores}
ClassifyInputs ==
    {PyList(l) : l \in SeqsUpTo({PyDict(TextKey :> PyStr(s)) : s \in ClassifyTexts},
                                MaxClassifyFragments)}

InitClassify ==
    /\ pc = "start"
    /\ CallsIdle
    /\ ShopIdle
    /\ NotebookIdle
    /\ json_data \in ClassifyInputs
    /\ cleaned_data = PyNone
    /\ extract_arg = PyNone
    /\ idx = 0
    /\ content_sections = InitialSections
    /\ raised = "none"
    /\ extracted = PyNone
    /\ text = PyNone
    /\ cleaned = PyNone
    /\ recleaned = PyNone
    /\ FormatIdle
    /\ DisplayIdle
    /\ SaveIdle

SpecClassify == InitClassify /\ [][Next]_vars

(***************************************************************************)
(* Claims about the text cleaner, checked under SpecClean                  *)
(***************************************************************************)
\* some match of either ANSI pattern starts somewhere in s
HasAnsi(s) ==
    \E i \in 1..Len(s) :
        AnsiMatchLen(EscPrefix, s, i) > 0 \/ AnsiMatchLen(EscapedPrefix, s, i) > 0

\* the Unicode block Box Drawing, U+2500..U+257F
BoxDrawingBlock == \h2500..\h257F

\* C1: the text cleaner is idempotent: for every string, cleaning the
\* cleaned string returns the cleaned string.
C1_CleanIdempotent ==
    (pc = "clean_twice" /\ IsStr(text)) => recleaned = cleaned

\* C2: for every string input the output of clean_swarm_text holds no ANSI
\* sequence ESC [ params m, neither with the ESC control character nor in
\* the textual backslash-u001b form.
C2_NoAnsiInOutput ==
    (pc # "clean_start" /\ IsStr(text)) => ~HasAnsi(cleaned.s)

\* C3: for every string input the output of clean_swarm_text holds no code
\* point of the Box Drawing block.
C3_NoBoxDrawingInOutput ==
    (pc # "clean_start" /\ IsStr(text)) =>
        \A k \in 1..Len(cleaned.s) : cleaned.s[k] \notin BoxDrawingBlock

\* C4: a value that is not a string is returned as it is, and nothing is
\* raised.
C4_NonStringPassthrough ==
    (pc # "clean_start" /\ ~IsStr(text)) => cleaned = text

C4_Witness ==
    /\ pc = "clean_once"
    /\ text = PyList(<<PyStr(<<\h2500>>)>>)
    /\ cleaned = text

(***************************************************************************)
(* Claims about the batch cleaner and the extractor, checked under Spec    *)
(***************************************************************************)
\* C5: the batch cleaner is a position-wise map: the output has the length
\* of the input; an element that is no mapping or has no 'text' key is the
\* input element itself; any other element is a mapping with the same keys
\* and values, except that 'text' holds the cleaned text.
C5_BatchPositionwise ==
    cleaned_data # PyNone =>
        /\ cleaned_data.t = "list"
        /\ Len(cleaned_data.l) = Len(json_data.l)
        /\ \A i \in 1..Len(json_data.l) :
              LET f == json_data.l[i]
                  g == cleaned_data.l[i]
              IN  IF f.t = "dict" /\ TextKey \in DOMAIN f.d
                  THEN /\ g.t = "dict"
                       /\ DOMAIN g.d = DOMAIN f.d
                       /\ g.d[TextKey] = clean_swarm_text(f.d[TextKey])
                       /\ \A k \in DOMAIN f.d \ {TextKey} : g.d[k] = f.d[k]
                  ELSE g = f

\* a two-element input: an element that is no mapping, then a fragment with
\* a second field whose text the cleaner changes
C5_Witness ==
    /\ pc = "batch_done"
    /\ Len(json_data.l) = 2
    /\ json_data.l[1] = PyInt(5)
    /\ cleaned_data.l[1] = PyInt(5)
    /\ json_data.l[2].t = "dict"
    /\ IdKey \in DOMAIN json_data.l[2].d
    /\ cleaned_data.l[2] # json_data.l[2]

SectionNames == {"swarm_status", "agent_responses", "metrics", "collective_knowledge"}

\* the members of the accumulator that the step changes
ChangedSections ==
    {m \in SectionNames : content_sections'[m] # content_sections[m]}

\* C6: every fragment changes at most one of the four members, chosen for
\* a text that is a string in the order status, response, metrics,
\* knowledge; a fragment whose text
\* holds both 'Swarm Status' and an agent-response pattern sets
\* swarm_status and appends nothing.
C6_ClassificationExclusive ==
    [][ (pc = "extract_loop" /\ idx <= Len(extract_arg.l)) =>
          LET item == extract_arg.l[idx]
              isText == HasText(item) /\ IsStr(item.d[TextKey])
              s == item.d[TextKey].s
              status == isText /\ Contains(SwarmStatusLit, s)
              response == isText /\ SearchAgentThen(ResponseLit, s)
              metrics == isText /\ SearchAgentThen(MetricsLit, s)
          IN  /\ Cardinality(ChangedSections) <= 1
              /\ status =>
                    /\ content_sections'.swarm_status = clean_swarm_text(item.d[TextKey])
                    /\ ChangedSections \subseteq {"swarm_status"}
              /\ (~status /\ response) =>
                    /\ Len(content_sections'.agent_responses)
                         = Len(content_sections.agent_responses) + 1
                    /\ ChangedSections = {"agent_responses"}
              /\ (~status /\ ~response /\ metrics) =>
                    /\ Len(content_sections'.metrics) = Len(content_sections.metrics) + 1
                    /\ ChangedSections = {"metrics"}
              /\ (isText /\ ~status /\ ~response /\ ~metrics) =>
                    ChangedSections \subseteq {"collective_knowledge"}
      ]_vars

\* the first fragment held 'Swarm Status: active' followed by
\* 'Agent agent_1 Response: Hello' and only the status was set
C6_Witness ==
    /\ pc = "extract_loop"
    /\ idx = 2
    /\ extract_arg.l[1] = PyDict(TextKey :> PyStr(StatusActive \o ResponseHello))
    /\ content_sections.swarm_status = PyStr(StatusActive \o ResponseHello)
    /\ content_sections.agent_responses = <<>>

\* [{text: 'Swarm Status: active'},
\*  {text: 'Agent agent_1 Response: Hello\n\nMetrics: latency=5ms'}]
ExampleInput ==
    PyList(<<PyDict(TextKey :> PyStr(StatusActive)),
             PyDict(TextKey :> PyStr(ResponseHello \o MetricsTail))>>)
\* 'agent_1', 'Hello', 'latency=5ms'
Agent1 == <<97, 103, 101, 110, 116, 95, 49>>
Hello == <<72, 101, 108, 108, 111>>
Latency == <<108, 97, 116, 101, 110, 99, 121, 61, 53, 109, 115>>

\* C7 as the specification states it: the example yields the status, the
\* response (agent_1, 'Hello') and the metrics (agent_1, 'latency=5ms').
C7_ExampleWithMetrics ==
    (pc = "extract_done" /\ extract_arg = ExampleInput) =>
        /\ extracted.swarm_status = PyStr(StatusActive)
        /\ extracted.agent_responses = <<[agent_id |-> Agent1, response |-> Hello]>>
        /\ extracted.metrics = <<[agent_id |-> Agent1, metrics |-> Latency]>>

\* C7 as amended: the example yields the status and the response
\* (agent_1, 'Hello'), and metrics stays empty: the second fragment is
\* classified as a response only.
C7_ExampleResponseOnly ==
    (pc = "extract_done" /\ extract_arg = ExampleInput) =>
        /\ extracted.swarm_status = PyStr(StatusActive)
        /\ extracted.agent_responses = <<[agent_id |-> Agent1, response |-> Hello]>>
        /\ extracted.metrics = <<>>

C7_Witness ==
    /\ pc = "extract_done"
    /\ extract_arg = ExampleInput
    /\ json_data = ExampleInput
    /\ Len(extracted.agent_responses) = 1

\* C8: the extractor never raises on a sequence the batch cleaner returned.
C8_ExtractNeverRaises ==
    (extract_arg # PyNone /\ extract_arg = cleaned_data) => raised = "none"

\* the text that follows the first 'Collective Knowledge:' of s, from its
\* first '[' on, parses as JSON
ParsesAfterMarker(s) ==
    LET after == PySlice(s, Find(KnowledgeLit, s) + Len(KnowledgeLit), Len(s))
        open == Find(<<91>>, after)
    IN  open # -1 /\ JsonLoads(PySlice(after, open, Len(after))).ok

\* C9: a fragment that holds 'Collective Knowledge:' followed by text that
\* does not parse as JSON raises nothing and leaves collective_knowledge
\* with the value it held before that fragment.
C9_ParseFailureKeepsKnowledge ==
    [][ (/\ pc = "extract_loop"
         /\ idx <= Len(extract_arg.l)
         /\ HasText(extract_arg.l[idx])
         /\ IsStr(extract_arg.l[idx].d[TextKey])
         /\ Contains(KnowledgeLit, extract_arg.l[idx].d[TextKey].s)
         /\ ~ParsesAfterMarker(extract_arg.l[idx].d[TextKey].s)) =>
          /\ raised' = "none"
          /\ content_sections'.collective_knowledge
               = content_sections.collective_knowledge
      ]_vars

(***************************************************************************)
(* Claims about the formatter, checked under SpecFormat                    *)
(***************************************************************************)
\* the 1-based position in summary of the line that shows response k
ResponseLineAt(k) ==
    2 + (IF Truthy(extracted_content.swarm_status) THEN 3 ELSE 0) + 2 + 2 * k

\* C10: for every maximum length L and every response r, the summary shows
\* r in full without an ellipsis when r has at most L characters, and the
\* first L characters of r followed by '...' when r has more than L
\* characters; the returned string is the lines joined by line feeds.
C10_TruncationBoundary ==
    pc = "format_done" =>
        /\ formatted = PyStr(JoinLines(summary))
        /\ \A k \in 1..Len(extracted_content.agent_responses) :
              LET r == extracted_content.agent_responses[k].response
                  L == max_response_length
              IN  IF Len(r) <= L
                  THEN summary[ResponseLineAt(k)] = r
                  ELSE summary[ResponseLineAt(k)] = SubSeq(r, 1, L) \o <<46, 46, 46>>

\* L = 10 with a response of exactly 10 characters shown untouched and a
\* response of 11 characters shown as its first 10 followed by '...'
C10_Witness ==
    /\ pc = "format_done"
    /\ max_response_length = 10
    /\ Len(extracted_content.agent_responses) = 2
    /\ Len(extracted_content.agent_responses[1].response) = 10
    /\ Len(extracted_content.agent_responses[2].response) = 11
    /\ summary[ResponseLineAt(1)] = extracted_content.agent_responses[1].response
    /\ Len(summary[ResponseLineAt(2)]) = 13

(***************************************************************************)
(* Claims about the pipeline entry point, checked under SpecDisplay        *)
(***************************************************************************)
\* the payload has been resolved
Resolved == swarm_result.t = "dict" /\ pc # "display_start"

\* 'nope'
Nope == <<110, 111, 112, 101>>

\* C11: the resolved sequence is the payload itself when the payload is a
\* sequence; the parsed value when it is a string that parses as JSON; the
\* single fragment {text: the raw string} when it is a string that does not
\* parse; and empty when the payload is neither or is absent.
C11_PayloadResolution ==
    Resolved =>
        IF ContentPayloadKey \notin DOMAIN swarm_result.d
        THEN json_data = PyList(<<>>)
        ELSE LET payload == swarm_result.d[ContentPayloadKey]
             IN  CASE payload.t = "list" -> json_data = payload
                   [] payload.t = "str" /\ JsonLoads(payload.s).ok ->
                        json_data = JsonLoads(payload.s).v
                   [] payload.t = "str" /\ ~JsonLoads(payload.s).ok ->
                        /\ json_data.t = "list"
                        /\ Len(json_data.l) = 1
                        /\ json_data.l[1] = PyDict(TextKey :> payload)
                   [] OTHER -> json_data = PyList(<<>>)

\* the payload 'nope' went through the whole pipeline as one fragment
C11_Witness ==
    /\ pc = "display_done"
    /\ swarm_result = PyDict(ContentPayloadKey :> PyStr(Nope))
    /\ json_data = PyList(<<PyDict(TextKey :> PyStr(Nope))>>)
    /\ returned.cleaned_data = json_data

\* C12: display_swarm_analysis raises for no raw result.
C12_DisplayNeverRaises == raised = "none"

SavedSequence ==
    IF save_input.t = "str" THEN JsonLoads(save_input.s).v ELSE save_input

StepIsText ==
    /\ pc = "extract_loop"
    /\ idx <= Len(extract_arg.l)
    /\ HasText(extract_arg.l[idx])
    /\ IsStr(extract_arg.l[idx].d[TextKey])
\* that text
StepText == extract_arg.l[idx].d[TextKey].s

\* 'agent_'
AgentIdLit == <<97, 103, 101, 110, 116, 95>>
\* 'Agent '
AgentWord == <<65, 103, 101, 110, 116, 32>>
\* an agent identifier, 'agent_' and at least one digit, starts at position
\* i of s
IdentifierAt(s, i) ==
    OccursAt(AgentIdLit, s, i) /\ i + 6 <= Len(s) /\ s[i + 6] \in Digits
\* the position after the last digit of the identifier that starts at i
IdentifierEnd(s, i) == SkipDigits(s, i + 6)

\* the step appends exactly one entry to agent_responses
AppendsOneResponse ==
    /\ Len(content_sections'.agent_responses)
         = Len(content_sections.agent_responses) + 1
    /\ SubSeq(content_sections'.agent_responses, 1,
              Len(content_sections.agent_responses))
         = content_sections.agent_responses

\* C15 as the specification states it: a fragment whose text holds no
\* 'Swarm Status' and holds an agent identifier followed, anywhere later in
\* the text, by 'Response:' appends exactly one entry to agent_responses.
C15_ResponseAnywhereLater ==
    [][ (/\ StepIsText
         /\ ~Contains(SwarmStatusLit, StepText)
         /\ \E i \in 1..Len(StepText) :
               /\ IdentifierAt(StepText, i)
               /\ \E j \in IdentifierEnd(StepText, i)..Len(StepText) :
                     OccursAt(ResponseLit, StepText, j))
        => AppendsOneResponse ]_vars

\* C15 as amended: a fragment whose text holds no 'Swarm Status' and holds
\* 'Agent ' immediately followed by an agent identifier that is followed,
\* with no line feed in between, by 'Response:' appends exactly one entry
\* to agent_responses.
C15_ResponseOnSameLine ==
    [][ (/\ StepIsText
         /\ ~Contains(SwarmStatusLit, StepText)
         /\ \E i \in 1..Len(StepText) :
               /\ OccursAt(AgentWord, StepText, i)
               /\ IdentifierAt(StepText, i + 6)
               /\ \E j \in IdentifierEnd(StepText, i + 6)..Len(StepText) :
                     /\ OccursAt(ResponseLit, StepText, j)
                     /\ \A k \in IdentifierEnd(StepText, i + 6)..(j - 1) :
                           StepText[k] # 10)
        => AppendsOneResponse ]_vars

\* the fragment 'Agent agent_9 said\nAgent agent_2 Response:  real ', whose
\* pattern starts on the second line, has appended one entry
C15_Witness ==
    /\ pc = "extract_loop"
    /\ idx = 2
    /\ extract_arg.l[1] = PyDict(TextKey :> PyStr(EarlyAgent \o PaddedResponse))
    /\ Len(content_sections.agent_responses) = 1

\* the step classifies the fragment as a response
StepIsResponse ==
    /\ StepIsText
    /\ ~Contains(SwarmStatusLit, StepText)
    /\ SearchAgentThen(ResponseLit, StepText)

\* the positions where a match of the pattern  Agent agent_\d+.*token
\* starts in s
MatchStarts(token, s) ==
    {i \in 1..Len(s) :
        /\ AgentAt(s, i)
        /\ \E j \in (i + 13)..Len(s) :
              /\ OccursAt(token, s, j)
              /\ \A k \in (i + 13)..(j - 1) : s[k] # 10}

\* the entry the step appended to agent_responses
NewResponse ==
    content_sections'.agent_responses[Len(content_sections'.agent_responses)]

\* C16: the agent_id recorded for a response is the identifier of the first
\* match of the response pattern, the identifier that 'Response:' follows.
C16_AgentIdOfMatch ==
    [][ StepIsResponse =>
          LET m == SetMin(MatchStarts(ResponseLit, StepText))
          IN  /\ content_sections'.agent_responses # <<>>
              /\ NewResponse.agent_id
                   = Slice(StepText, m + 6, SkipDigits(StepText, m + 12)) ]_vars

\* C17: the stored response is the cleaned, trimmed text from right after
\* the 'Response:' token of the matched pattern to the first
\* '\n\nMetrics:' after it, or to the end of the text.
C17_ResponseBodyBounds ==
    [][ StepIsResponse =>
          LET s == StepText
              m == SetMin(MatchStarts(ResponseLit, s))
          IN  /\ content_sections'.agent_responses # <<>>
              /\ \E j \in (m + 13)..Len(s) :
                    /\ OccursAt(ResponseLit, s, j)
                    /\ \A k \in (m + 13)..(j - 1) : s[k] # 10
                    /\ LET delims == {d \in (j + 9)..Len(s) : OccursAt(MetricsDelim, s, d)}
                           stop == IF delims = {} THEN Len(s) + 1 ELSE SetMin(delims)
                       IN  NewResponse.response
                             = clean_str(Strip(Slice(s, j + 9, stop))) ]_vars

\* the text of s after its first 'Metrics:' token
AfterFirstMetrics(s) ==
    LET at == SetMin({i \in 1..Len(s) : OccursAt(MetricsLit, s, i)})
    IN  Slice(s, at + 8, Len(s) + 1)

StatusHits(n) ==
    {k \in 1..n :
        /\ HasText(extract_arg.l[k])
        /\ ~InOpRaises(extract_arg.l[k].d[TextKey])
        /\ InOp(SwarmStatusLit, extract_arg.l[k].d[TextKey])}

\* None when none of the first n elements is a status fragment, the
\* cleaned text of the last of them otherwise
LastStatus(n) ==
    IF StatusHits(n) = {} THEN PyNone
    ELSE LET last == CHOOSE k \in StatusHits(n) : \A h \in StatusHits(n) : h <= k
         IN  clean_swarm_text(extract_arg.l[last].d[TextKey])

\* C19: swarm_status is None while no fragment seen so far contains
\* 'Swarm Status', and otherwise the cleaned text of the last such
\* fragment, during the loop and in the record returned.
C19_StatusLastWins ==
    /\ pc = "extract_loop" => content_sections.swarm_status = LastStatus(idx - 1)
    /\ pc = "extract_done" => extracted.swarm_status = LastStatus(Len(extract_arg.l))

\* two status fragments with different cleaned texts: the second one stays
C19_Witness ==
    /\ pc = "extract_done"
    /\ Len(extract_arg.l) = 2
    /\ StatusHits(2) = {1, 2}
    /\ clean_swarm_text(extract_arg.l[1].d[TextKey])
         # clean_swarm_text(extract_arg.l[2].d[TextKey])
    /\ extracted.swarm_status = clean_swarm_text(extract_arg.l[2].d[TextKey])

\* C20: for a knowledge fragment, parsing starts at the first '[' at or
\* after the 'Collective Knowledge:' marker: the section becomes what the
\* text from that '[' on yields, and stays as it was when there is none.
C20_KnowledgeFromMarker ==
    [][ (/\ StepIsText
         /\ ~Contains(SwarmStatusLit, StepText)
         /\ ~SearchAgentThen(ResponseLit, StepText)
         /\ ~SearchAgentThen(MetricsLit, StepText)
         /\ Contains(KnowledgeLit, StepText))
        => LET s == StepText
               marker == SetMin({i \in 1..Len(s) : OccursAt(KnowledgeLit, s, i)})
               opens == {i \in marker..Len(s) : s[i] = 91}
           IN  content_sections'.collective_knowledge
                 = IF opens = {} THEN content_sections.collective_knowledge
                   ELSE KnowledgeFrom(content_sections.collective_knowledge,
                                      JsonLoads(Slice(s, SetMin(opens), Len(s) + 1)))
      ]_vars

(***************************************************************************)
(* Claims about the knowledge section, the order of the entries and the    *)
(* agent identifiers, checked under SpecClassify and Spec                  *)
(***************************************************************************)
\* the step examines a text that reaches the knowledge branch
StepIsKnowledge ==
    /\ StepIsText
    /\ ~Contains(SwarmStatusLit, StepText)
    /\ ~SearchAgentThen(ResponseLit, StepText)
    /\ ~SearchAgentThen(MetricsLit, StepText)
    /\ Contains(KnowledgeLit, StepText)

\* what json.loads yields for the text from its first '[' on
LocatedArray(s) == JsonLoads(PySlice(s, Find(<<91>>, s), Len(s)))

\* an element with its 'content' field, where it is a mapping that has
\* one, replaced by the cleaned value
ContentCleaned(item) ==
    IF item.t = "dict" /\ ContentKey \in DOMAIN item.d
    THEN PyDict([key \in DOMAIN item.d |->
                   IF key = ContentKey THEN clean_swarm_text(item.d[key])
                   ELSE item.d[key]])
    ELSE item

\* C21: whenever the text of a knowledge fragment, from its first '[' on,
\* parses as a JSON array, collective_knowledge becomes that array with
\* the 'content' field of every element that has one cleaned, whatever
\* the elements are.
C21_KnowledgeSuccessPath ==
    [][ (/\ StepIsKnowledge
         /\ Find(<<91>>, StepText) # -1
         /\ LocatedArray(StepText).ok)
        => LET array == LocatedArray(StepText).v.l
           IN  content_sections'.collective_knowledge
                 = [k \in 1..Len(array) |-> ContentCleaned(array[k])]
      ]_vars

\* the fragment is classified as a response / as metrics
IsResponseFragment(item) ==
    /\ HasText(item)
    /\ IsStr(item.d[TextKey])
    /\ ~Contains(SwarmStatusLit, item.d[TextKey].s)
    /\ SearchAgentThen(ResponseLit, item.d[TextKey].s)
IsMetricsFragment(item) ==
    /\ HasText(item)
    /\ IsStr(item.d[TextKey])
    /\ ~Contains(SwarmStatusLit, item.d[TextKey].s)
    /\ ~SearchAgentThen(ResponseLit, item.d[TextKey].s)
    /\ SearchAgentThen(MetricsLit, item.d[TextKey].s)

\* the j-th smallest member of the set S of positions
Nth(S, j) == CHOOSE k \in S : Cardinality({m \in S : m <= k}) = j

\* entries holds, in input order, one entry for each of the positions in
\* from, and that entry is the one the fragment yields when it is
\* extracted alone
OnePerFragment(entries, section, from) ==
    /\ Len(entries) = Cardinality(from)
    /\ \A j \in 1..Len(entries) :
          <<entries[j]>>
            = extract_item(InitialSections, extract_arg.l[Nth(from, j)]).cs[section]

\* the fragments the loop has examined so far
Examined == 1..(idx - 1)

\* C22: agent_responses holds exactly one entry for every fragment
\* classified as a response, in input order, and metrics one for every
\* fragment classified as metrics; entries of the same agent_id are all
\* kept.  It holds of the accumulator throughout the loop and of the
\* record returned.
C22_OrderAndMultiplicity ==
    /\ pc \in {"extract_loop", "extract_raised", "extract_done"} =>
         /\ OnePerFragment(content_sections.agent_responses, "agent_responses",
                {k \in Examined : IsResponseFragment(extract_arg.l[k])})
         /\ OnePerFragment(content_sections.metrics, "metrics",
                {k \in Examined : IsMetricsFragment(extract_arg.l[k])})
    /\ pc = "extract_done" =>
         /\ extracted.agent_responses = content_sections.agent_responses
         /\ extracted.metrics = content_sections.metrics

\* two response fragments of the same agent were extracted and both
\* entries are there, in order
C22_Witness ==
    /\ pc = "extract_done"
    /\ Len(extracted.agent_responses) = 2
    /\ extracted.agent_responses[1].agent_id = extracted.agent_responses[2].agent_id
    /\ extracted.agent_responses[1].response # extracted.agent_responses[2].response
    /\ IsResponseFragment(extract_arg.l[1])
    /\ IsResponseFragment(extract_arg.l[2])

(***************************************************************************)
(* The sections of the summary, checked under SpecFormat                   *)
(***************************************************************************)
\* lines is the title banner followed by the status block when shown is
\* true, the responses block when ec has responses (one entry per response,
\* in order) and the metrics block when ec has metrics (every metrics text
\* in full), in this order and with nothing else
SectionsInOrder(ec, lines, shown) ==
    LET n == Len(ec.agent_responses)
        m == Len(ec.metrics)
        a == 2 + (IF shown THEN 3 ELSE 0)
        b == a + (IF n > 0 THEN 2 + 2 * n ELSE 0)
        c == b + (IF m > 0 THEN 2 + 2 * m ELSE 0)
    IN  /\ Len(lines) = c
        /\ lines[1] = SummaryTitle
        /\ lines[2] = TitleRule
        /\ shown => /\ lines[3] = StatusHeader
                    /\ lines[4] = SectionRule
                    /\ lines[5] = ec.swarm_status.s
        /\ n > 0 => /\ lines[a + 1] = ResponsesHeader
                    /\ lines[a + 2] = SectionRule
                    /\ \A k \in 1..n :
                          lines[a + 1 + 2 * k]
                            = <<10>> \o ec.agent_responses[k].agent_id \o <<58>>
        /\ m > 0 => /\ lines[b + 1] = MetricsHeader
                    /\ lines[b + 2] = SectionRule
                    /\ \A k \in 1..m :
                          /\ lines[b + 1 + 2 * k]
                               = <<10>> \o ec.metrics[k].agent_id \o <<58>>
                          /\ lines[b + 2 + 2 * k] = ec.metrics[k].metrics

\* the call returns the lines joined by line feeds and changes neither
\* its arguments nor anything else
FormatLeavesStateAlone ==
    /\ formatted' = PyStr(JoinLines(summary'))
    /\ extracted_content' = extracted_content
    /\ max_response_length' = max_response_length
    /\ UNCHANGED <<cleanVars, extractVars, displayVars, saveVars, otherVars>>

\* C23 as stated: the summary is the title banner, then the SWARM STATUS
\* block exactly when swarm_status is not None, then the AGENT RESPONSES
\* block exactly when there are responses, then the PERFORMANCE METRICS
\* block exactly when there are metrics, each metrics text in full; the
\* call modifies neither its argument nor any other state.
C23_StatusShownWhenNonNull ==
    [][ pc = "format_start" =>
          /\ SectionsInOrder(extracted_content, summary',
                             extracted_content.swarm_status # PyNone)
          /\ FormatLeavesStateAlone
      ]_vars

\* C23 as amended: the SWARM STATUS block is there exactly when
\* swarm_status is neither None nor the empty string; the rest as stated.
C23_SectionOrderAndPresence ==
    [][ pc = "format_start" =>
          /\ SectionsInOrder(extracted_content, summary',
                             extracted_content.swarm_status
                               \notin {PyNone, PyStr(<<>>)})
          /\ FormatLeavesStateAlone
      ]_vars

\* a summary with all three blocks, whose metrics text is longer than the
\* maximum response length and is shown in full
C23_Witness ==
    /\ pc = "format_done"
    /\ extracted_content.swarm_status = PyStr(StatusActive)
    /\ Len(extracted_content.agent_responses) = 2
    /\ Len(extracted_content.metrics) = 1
    /\ max_response_length = 3
    /\ Len(summary) = 15
    /\ summary[15] = extracted_content.metrics[1].metrics
    /\ Len(summary[15]) > 3

(***************************************************************************)
(* Two invocations side by side: each is one call of clean_swarm_output,   *)
(* extract_swarm_content or display_swarm_analysis (verbose off) on its    *)
(* own fragment list, and the steps of the two interleave in any order,    *)
(* one loop iteration at a time                                            *)
(***************************************************************************)
MaxCallFragments == 2

TwoCalls == {1, 2}
CallKinds == {"clean", "extract", "display"}
CallFragments ==
    { PyDict(TextKey :> PyStr(AnsiBox \o StatusActive)),
      PyDict(TextKey :> PyStr(ResponseHello \o MetricsTail)),
      PyDict(TextKey :> PyStr(KnowledgeHead \o KnowledgeArray)) }
CallInputs == {PyList(l) : l \in SeqsUpTo(CallFragments, MaxCallFragments)}

\* what the invocation returns or raises when it runs alone
ResultAlone(kind, arg) ==
    LET data == IF kind = "display" THEN clean_swarm_output(ResolvePayload(arg))
                ELSE arg
        r == extract_swarm_content(data)
    IN  CASE kind = "clean" ->
               [raised |-> "none", result |-> clean_swarm_output(arg)]
          [] r.raised # "none" ->
               [raised |-> r.raised, result |-> PyNone]
          [] kind = "extract" ->
               [raised |-> "none", result |-> r.cs]
          [] OTHER ->
               [raised |-> "none", result |-> DisplayResult(data, r.cs)]

\* an invocation that has not run yet; alone records what it returns or
\* raises when it runs alone
NewCall(kind, arg) ==
    [kind |-> kind, arg |-> arg, at |-> "start", data |-> PyNone, idx |-> 0,
     content_sections |-> PyNone, raised |-> "none", result |-> PyNone,
     alone |-> ResultAlone(kind, arg)]

\* a variant whose accumulator outlives the call: the second invocation
\* starts from what the first one has accumulated
EntrySections_carried_over(all, i) ==
    IF i > 1 /\ all[1].content_sections # PyNone
    THEN all[1].content_sections
    ELSE InitialSections

\* lines 93-98: the accumulator invocation i starts from is a dictionary
\* built inside the call, whatever the other invocations hold
EntrySections(all, i) == InitialSections

\* the two invocations are interchangeable: of two pairs that differ only
\* in which invocation is called first and which second, one is taken
KindRank(kind) ==
    CASE kind = "clean" -> 1 [] kind = "extract" -> 2 [] OTHER -> 3

InitCalls ==
    /\ pc = "calls"
    /\ calls \in {c \in [TwoCalls -> {NewCall(kind, arg) : kind \in CallKinds,
                                                          arg \in CallInputs}] :
                    KindRank(c[1].kind) <= KindRank(c[2].kind)}
    /\ ShopIdle
    /\ NotebookIdle
    /\ json_data = PyNone
    /\ cleaned_data = PyNone
    /\ extract_arg = PyNone
    /\ idx = 0
    /\ content_sections = InitialSections
    /\ raised = "none"
    /\ extracted = PyNone
    /\ text = PyNone
    /\ cleaned = PyNone
    /\ recleaned = PyNone
    /\ FormatIdle
    /\ DisplayIdle
    /\ SaveIdle

CallsFrame ==
    UNCHANGED <<pc, cleanVars, extractVars, formatVars, displayVars, saveVars,
                shopVars, notebookVars>>

\* invocation i of the batch cleaner runs (lines 70-80)
CallClean(i) ==
    /\ calls[i].at = "start"
    /\ calls[i].kind = "clean"
    /\ calls' = [calls EXCEPT ![i].result = clean_swarm_output(calls[i].arg),
                              ![i].at = "done"]
    /\ CallsFrame

\* invocation i enters the extractor (lines 93-98), for the pipeline after
\* it has resolved and cleaned its payload (lines 237-251)
CallEnter(i) ==
    /\ calls[i].at = "start"
    /\ calls[i].kind # "clean"
    /\ calls' = [calls EXCEPT
          ![i].data = IF calls[i].kind = "display"
                      THEN clean_swarm_output(ResolvePayload(calls[i].arg))
                      ELSE calls[i].arg,
          ![i].idx = 1,
          ![i].content_sections = EntrySections(calls, i),
          ![i].at = "loop"]
    /\ CallsFrame

\* one iteration of the loop of invocation i (lines 100-149)
CallItem(i) ==
    /\ calls[i].at = "loop"
    /\ calls[i].idx <= Len(calls[i].data.l)
    /\ LET r == extract_item(calls[i].content_sections,
                             calls[i].data.l[calls[i].idx])
       IN  calls' = [calls EXCEPT
             ![i].content_sections = r.cs,
             ![i].raised = r.raised,
             ![i].idx = @ + 1,
             ![i].at = IF r.raised = "none" THEN "loop" ELSE "raised"]
    /\ CallsFrame

\* invocation i returns (line 151, and lines 260-263 for the pipeline)
CallReturn(i) ==
    /\ calls[i].at = "loop"
    /\ calls[i].idx > Len(calls[i].data.l)
    /\ calls' = [calls EXCEPT
          ![i].result = IF calls[i].kind = "display"
                        THEN DisplayResult(calls[i].data, calls[i].content_sections)
                        ELSE calls[i].content_sections,
          ![i].at = "done"]
    /\ CallsFrame

NextCalls ==
    \E i \in TwoCalls :
        CallClean(i) \/ CallEnter(i) \/ CallItem(i) \/ CallReturn(i)

SpecCalls == InitCalls /\ [][NextCalls]_vars

\* C24: whatever the other invocation is and however far it has run, an
\* invocation that has finished has returned or raised what it returns or
\* raises when it runs alone on its own input.
C24_NoSharedState ==
    \A i \in TwoCalls :
        calls # <<>> /\ calls[i].at \in {"done", "raised"} =>
            [raised |-> calls[i].raised, result |-> calls[i].result]
              = calls[i].alone

\* the second invocation, an extraction of a text without status or
\* knowledge, has returned while the first is in the middle of its loop
\* and has a status and knowledge accumulated
C24_Witness ==
    /\ calls # <<>>
    /\ calls[1].at = "loop"
    /\ calls[1].idx = 3
    /\ calls[1].content_sections.swarm_status # PyNone
    /\ calls[1].content_sections.collective_knowledge # <<>>
    /\ calls[2].kind = "extract"
    /\ calls[2].at = "done"
    /\ calls[2].arg = PyList(<<PyDict(TextKey :> PyStr(ResponseHello \o MetricsTail))>>)
    /\ calls[2].result.swarm_status = PyNone
    /\ calls[2].result.collective_knowledge = <<>>
    /\ Len(calls[2].result.agent_responses) = 1

(***************************************************************************)
(* The caller's list across a call of the batch cleaner, checked under     *)
(* Spec                                                                    *)
(***************************************************************************)
\* C25: a call of clean_swarm_output leaves the list it is given, and every
\* element of it, as they were: the cleaned text is in the returned list
\* only.
C25_InputUntouched ==
    [][ (pc = "start" /\ pc' = "batch_done") =>
          /\ json_data' = json_data
          /\ cleaned_data' = clean_swarm_output(json_data)
      ]_vars

\* after the call the caller's fragment still holds the escape sequence
\* and the box characters, and the returned one does not
C25_Witness ==
    /\ pc = "batch_done"
    /\ Len(json_data.l) = 1
    /\ json_data.l[1].t = "dict"
    /\ TextKey \in DOMAIN json_data.l[1].d
    /\ json_data.l[1].d[TextKey] = PyStr(AnsiBox \o StatusActive)
    /\ cleaned_data.l[1].d[TextKey] # json_data.l[1].d[TextKey]

(***************************************************************************)
(* The agent identifiers of the entries, checked under SpecClassify        *)
(***************************************************************************)
\* id is 'agent_' followed by one or more digits
WellFormedAgentId(id) ==
    /\ Len(id) >= 7
    /\ SubSeq(id, 1, 6) = AgentIdLit
    /\ \A k \in 7..Len(id) : id[k] \in Digits

\* every entry of the sequence has a well-formed agent_id
AllWellFormed(entries) ==
    \A k \in 1..Len(entries) :
        /\ WellFormedAgentId(entries[k].agent_id)
        /\ entries[k].agent_id # Unknown

\* C26: every agent_id in agent_responses and in metrics, in the
\* accumulator throughout the loop and in the record returned, is 'agent_'
\* followed by one or more digits; the fallback 'unknown' never appears.
C26_AgentIdWellFormed ==
    /\ AllWellFormed(content_sections.agent_responses)
    /\ AllWellFormed(content_sections.metrics)
    /\ pc = "extract_done" =>
          /\ AllWellFormed(extracted.agent_responses)
          /\ AllWellFormed(extracted.metrics)

\* a response whose identifier does not start the text and a metrics
\* fragment have been extracted
C26_Witness ==
    /\ pc = "extract_done"
    /\ Len(extracted.agent_responses) = 1
    /\ Len(extracted.metrics) = 1
    /\ extract_arg.l[1].d[TextKey].s = EarlyResponse \o PaddedResponse
    /\ extracted.agent_responses[1].agent_id = AgentIdLit \o <<50>>

(***************************************************************************)
(* A parse failure of the persistence function, checked under SpecSave     *)
(***************************************************************************)
\* C27: save_cleaned_swarm_output on a string that is not valid JSON
\* raises the parse error before the destination is opened: the call ends
\* with JSONDecodeError, and the destination is as it was, absent when it
\* did not exist and with its old content when it did.
C27_ParseErrorBeforeOpen ==
    [][ (/\ pc = "save_start"
         /\ save_input.t = "str"
         /\ ~JsonLoads(save_input.s).ok) =>
          /\ pc' = "save_raised"
          /\ raised' = "JSONDecodeError"
          /\ output_file' = output_file
      ]_vars

\* the call on 'bad' has raised and the destination still holds 'old'
C27_Witness ==
    /\ pc = "save_raised"
    /\ raised = "JSONDecodeError"
    /\ save_input = PyStr(<<98, 97, 100>>)
    /\ output_file = PyStr(OldFile)

(***************************************************************************)
(* src/src/mcp_servers/ecommerce_db_server.py: the products table of the   *)
(* in-memory database behind the global connection, and the tools          *)
(* check_stock, get_product and update_stock.  The tools are synchronous   *)
(* functions of one server process, so a call runs to its return before    *)
(* the next one starts.                                                    *)
(***************************************************************************)
MaxToolCalls == 4

\* lines 63-74: the stock column of the ten sample products, by id
SampleStock == <<10, 50, 25, 30, 5, 8, 100, 40, 60, 20>>
ProductIds == DOMAIN SampleStock

\* the product ids and quantity changes the calls are made with: the
\* laptop (stock 10), the standing desk (stock 5) and an id without a row
CalledProducts == {1, 5, 11}
QuantityChanges == {0 - 10, 0 - 5, 3}

\* lines 18-103: the database initialize_database leaves behind conn
initialize_database == [stock |-> SampleStock]

\* a variant that initializes on every call
NeedsInitialize_always(c) == TRUE

\* if not conn  (lines 219, 129, 238)
NeedsInitialize(c) == c = PyNone

\* the database the body of a tool works on
Connected(c) == IF NeedsInitialize(c) THEN initialize_database ELSE c

\* lines 222-233: the reply of check_stock (of the row, the stock only)
check_stock(db, product_id) ==
    IF product_id \notin ProductIds
    THEN [available |-> FALSE, error |-> "Product not found"]
    ELSE [id |-> product_id, stock |-> db.stock[product_id],
          available |-> db.stock[product_id] > 0]

\* lines 132-134: the reply of get_product (of the row, the stock only)
get_product(db, product_id) ==
    IF product_id \notin ProductIds THEN PyNone
    ELSE [id |-> product_id, stock |-> db.stock[product_id]]

\* a variant without the test of the new stock
update_stock_unchecked(db, product_id, quantity_change) ==
    IF product_id \notin ProductIds
    THEN [db |-> db, reply |-> [success |-> FALSE, error |-> "Product not found"]]
    ELSE LET current_stock == db.stock[product_id]
             new_stock == current_stock + quantity_change
         IN  [db |-> [db EXCEPT !.stock[product_id] = new_stock],
              reply |-> [success |-> TRUE, product_id |-> product_id,
                         previous_stock |-> current_stock,
                         new_stock |-> new_stock]]

\* lines 242-265: the database after update_stock and its reply
update_stock(db, product_id, quantity_change) ==
    IF product_id \notin ProductIds
    THEN [db |-> db, reply |-> [success |-> FALSE, error |-> "Product not found"]]
    ELSE LET current_stock == db.stock[product_id]
             new_stock == current_stock + quantity_change
         IN  IF new_stock < 0
             THEN [db |-> db,
                   reply |-> [success |-> FALSE, error |-> "Insufficient stock"]]
             ELSE [db |-> [db EXCEPT !.stock[product_id] = new_stock],
                   reply |-> [success |-> TRUE, product_id |-> product_id,
                              previous_stock |-> current_stock,
                              new_stock |-> new_stock]]

\* no tool has been called
NoRequest == [tool |-> "none", product_id |-> 0, quantity_change |-> 0, n |-> 0]

InitShop ==
    /\ pc = "shop_loading"
    /\ conn = PyNone
    /\ initialize_count = 0
    /\ request = NoRequest
    /\ reply = PyNone
    /\ written = [product_id \in ProductIds |-> PyNone]
    /\ CallsIdle
    /\ NotebookIdle
    /\ json_data = PyNone
    /\ cleaned_data = PyNone
    /\ extract_arg = PyNone
    /\ idx = 0
    /\ content_sections = InitialSections
    /\ raised = "none"
    /\ extracted = PyNone
    /\ text = PyNone
    /\ cleaned = PyNone
    /\ recleaned = PyNone
    /\ FormatIdle
    /\ DisplayIdle
    /\ SaveIdle

ShopFrame ==
    UNCHANGED <<cleanVars, extractVars, formatVars, displayVars, saveVars,
                callVars, notebookVars>>

\* lines 289-293: the module is run as a program and initializes the
\* database before it serves
RunAsMain ==
    /\ pc = "shop_loading"
    /\ conn' = initialize_database
    /\ initialize_count' = initialize_count + 1
    /\ pc' = "serving"
    /\ UNCHANGED <<request, reply, written>>
    /\ ShopFrame

\* the module is imported by a host that calls the tools: nothing is
\* initialized yet (line 16)
Imported ==
    /\ pc = "shop_loading"
    /\ pc' = "serving"
    /\ UNCHANGED <<conn, initialize_count, request, reply, written>>
    /\ ShopFrame

\* the start of every tool: the guard and the call of initialize_database
ToolEntry(tool, product_id, quantity_change) ==
    /\ pc = "serving"
    /\ request.n < MaxToolCalls
    /\ request' = [tool |-> tool, product_id |-> product_id,
                   quantity_change |-> quantity_change, n |-> request.n + 1]
    /\ initialize_count' =
          IF NeedsInitialize(conn) THEN initialize_count + 1 ELSE initialize_count
    /\ UNCHANGED pc
    /\ ShopFrame

\* lines 216-233
ToolCheckStock ==
    \E product_id \in CalledProducts :
        /\ ToolEntry("check_stock", product_id, 0)
        /\ conn' = Connected(conn)
        /\ reply' = check_stock(Connected(conn), product_id)
        /\ UNCHANGED written

\* lines 126-134
ToolGetProduct ==
    \E product_id \in CalledProducts :
        /\ ToolEntry("get_product", product_id, 0)
        /\ conn' = Connected(conn)
        /\ reply' = get_product(Connected(conn), product_id)
        /\ UNCHANGED written

\* lines 235-265
ToolUpdateStock ==
    \E product_id \in CalledProducts, quantity_change \in QuantityChanges :
        LET r == update_stock(Connected(conn), product_id, quantity_change)
        IN  /\ ToolEntry("update_stock", product_id, quantity_change)
            /\ conn' = r.db
            /\ reply' = r.reply
            /\ written' = IF r.reply.success
                          THEN [written EXCEPT ![product_id] = PyInt(r.reply.new_stock)]
                          ELSE written

NextShop ==
    RunAsMain \/ Imported \/ ToolCheckStock \/ ToolGetProduct \/ ToolUpdateStock

SpecShop == InitShop /\ [][NextShop]_vars

\* the stock column a tool call finds: the sample data when the call is
\* the one that initializes
StockFound == IF conn = PyNone THEN SampleStock ELSE conn.stock

\* C28: the stock of every product is never negative.  update_stock on an
\* id without a row replies success false with 'Product not found'; on a
\* change that would make the stock negative it replies success false with
\* 'Insufficient stock'; in both cases no stock changes.  Otherwise it
\* replies success with new_stock = previous_stock + quantity_change and
\* sets the stock of that product to it and no other.
C28_StockNeverNegative ==
    [][ /\ conn' # PyNone => \A k \in ProductIds : conn'.stock[k] >= 0
        /\ (request'.n # request.n /\ request'.tool = "update_stock") =>
             LET product_id == request'.product_id
                 change == request'.quantity_change
             IN  IF product_id \notin ProductIds
                 THEN /\ reply' = [success |-> FALSE, error |-> "Product not found"]
                      /\ conn'.stock = StockFound
                 ELSE IF StockFound[product_id] + change < 0
                 THEN /\ reply' = [success |-> FALSE, error |-> "Insufficient stock"]
                      /\ conn'.stock = StockFound
                 ELSE /\ reply'.success
                      /\ reply'.previous_stock = StockFound[product_id]
                      /\ reply'.new_stock = StockFound[product_id] + change
                      /\ conn'.stock
                           = [StockFound EXCEPT ![product_id] = reply'.new_stock]
      ]_vars

\* the stock of the standing desk has been brought to zero and a further
\* decrease has been refused
C28_Witness ==
    /\ conn # PyNone
    /\ conn.stock[5] = 0
    /\ written[5] = PyInt(0)
    /\ request.tool = "update_stock"
    /\ request.product_id = 5
    /\ request.quantity_change < 0
    /\ reply = [success |-> FALSE, error |-> "Insufficient stock"]

\* C29: initialize_database runs at most once, at startup or in the first
\* tool call, and the connection exists from then on.  The stock that
\* update_stock wrote last for a product is the stock the table holds, and
\* it is what check_stock and get_product reply (available exactly when it
\* is positive) and what update_stock replies as new_stock: it is never
\* reset to the sample data.
C29_InitializedOnce ==
    /\ initialize_count <= 1
    /\ (initialize_count = 1) = (conn # PyNone)
    /\ request.n > 0 => conn # PyNone
    /\ conn # PyNone =>
         /\ \A k \in ProductIds :
               conn.stock[k] = IF written[k] = PyNone THEN SampleStock[k]
                               ELSE written[k].n
         /\ (request.tool = "check_stock" /\ request.product_id \in ProductIds) =>
               /\ reply.stock = conn.stock[request.product_id]
               /\ reply.available = (conn.stock[request.product_id] > 0)
         /\ (request.tool = "get_product" /\ request.product_id \in ProductIds) =>
               reply.stock = conn.stock[request.product_id]
         /\ (request.tool = "update_stock" /\ reply.success) =>
               reply.new_stock = conn.stock[request.product_id]

\* after initialization and an update, a later check_stock reads the zero
\* that update_stock wrote
C29_Witness ==
    /\ initialize_count = 1
    /\ request.n >= 3
    /\ request.tool = "check_stock"
    /\ request.product_id = 5
    /\ written[5] = PyInt(0)
    /\ reply.stock = 0
    /\ reply.available = FALSE

(***************************************************************************)
(* src/convert_to_jupyter.py: create_jupyter_notebook, up to the list of   *)
(* cells it puts in the notebook (lines 4-69)                              *)
(***************************************************************************)
MaxNotebookLines == 4

\* s.split('\n')
RECURSIVE SplitLines(_)
SplitLines(s) ==
    LET feeds == {k \in 1..Len(s) : s[k] = 10}
    IN  IF feeds = {} THEN <<s>>
        ELSE <<SubSeq(s, 1, SetMin(feeds) - 1)>>
             \o SplitLines(SubSeq(s, SetMin(feeds) + 1, Len(s)))

\* line 19: line.strip().startswith('```')
IsFence(line) ==
    /\ Len(Strip(line)) >= 3
    /\ SubSeq(Strip(line), 1, 3) = <<96, 96, 96>>

\* lines 22-29, 36-42, 54-69: the cell made of the collected lines
NotebookCell(cell_type, collected) ==
    [cell_type |-> cell_type, source |-> SplitLines(JoinLines(collected))]

\* lines 37, 55: content.strip() is not empty
HasContent(collected) == Strip(JoinLines(collected)) # <<>>

\* a variant that makes a code cell at the closing fence only when lines
\* were collected
scan_line_skip_empty(st, line) ==
    IF IsFence(line)
    THEN IF st.in_code_block
         THEN [st EXCEPT !.cells = IF st.current_cell # <<>>
                                   THEN Append(@, NotebookCell("code", st.current_cell))
                                   ELSE @,
                         !.current_cell = <<>>,
                         !.in_code_block = FALSE]
         ELSE [st EXCEPT !.cells = IF st.current_cell # <<>> /\ HasContent(st.current_cell)
                                   THEN Append(@, NotebookCell("markdown", st.current_cell))
                                   ELSE @,
                         !.markdown_content = IF st.current_cell # <<>>
                                              THEN PyStr(JoinLines(st.current_cell))
                                              ELSE @,
                         !.current_cell = <<>>,
                         !.in_code_block = TRUE]
    ELSE [st EXCEPT !.current_cell = Append(@, line)]

\* lines 16-48: one iteration of the loop on line, from the state st of
\* cells, current_cell, in_code_block and markdown_content (which line 36
\* reassigns)
scan_line(st, line) ==
    IF IsFence(line)
    THEN IF st.in_code_block
         THEN [st EXCEPT !.cells = Append(@, NotebookCell("code", st.current_cell)),
                         !.current_cell = <<>>,
                         !.in_code_block = FALSE]
         ELSE [st EXCEPT !.cells = IF st.current_cell # <<>> /\ HasContent(st.current_cell)
                                   THEN Append(@, NotebookCell("markdown", st.current_cell))
                                   ELSE @,
                         !.markdown_content = IF st.current_cell # <<>>
                                              THEN PyStr(JoinLines(st.current_cell))
                                              ELSE @,
                         !.current_cell = <<>>,
                         !.in_code_block = TRUE]
    ELSE [st EXCEPT !.current_cell = Append(@, line)]

\* lines 52-69: the cells after the remaining content has been added
remaining_content(st) ==
    IF st.current_cell # <<>> /\ HasContent(st.current_cell)
    THEN Append(st.cells,
                NotebookCell(IF st.in_code_block THEN "code" ELSE "markdown",
                             st.current_cell))
    ELSE st.cells

\* the lines of the inputs: an empty line, a blank line, two lines of
\* text (one with backticks inside), a bare fence and an indented fence
\* with a language
NotebookLines ==
    { <<>>, <<32>>, <<97>>, <<98, 96, 96, 96>>, <<96, 96, 96>>,
      <<32, 32, 96, 96, 96, 112, 121>> }
NotebookInputs ==
    {PyStr(JoinLines(l)) : l \in SeqsUpTo(NotebookLines, MaxNotebookLines)}

InitNotebook ==
    /\ pc = "notebook_call"
    /\ markdown_content \in NotebookInputs
    /\ source_lines = <<>>
    /\ line_no = 0
    /\ cells = <<>>
    /\ current_cell = <<>>
    /\ in_code_block = FALSE
    /\ CallsIdle
    /\ ShopIdle
    /\ json_data = PyNone
    /\ cleaned_data = PyNone
    /\ extract_arg = PyNone
    /\ idx = 0
    /\ content_sections = InitialSections
    /\ raised = "none"
    /\ extracted = PyNone
    /\ text = PyNone
    /\ cleaned = PyNone
    /\ recleaned = PyNone
    /\ FormatIdle
    /\ DisplayIdle
    /\ SaveIdle

NotebookFrame ==
    UNCHANGED <<cleanVars, extractVars, formatVars, displayVars, saveVars,
                callVars, shopVars>>

\* lines 8-14
NotebookSplit ==
    /\ pc = "notebook_call"
    /\ source_lines' = SplitLines(markdown_content.s)
    /\ line_no' = 1
    /\ pc' = "notebook_scan"
    /\ UNCHANGED <<markdown_content, cells, current_cell, in_code_block>>
    /\ NotebookFrame

\* lines 15-50: one iteration of the while loop
ScanLine ==
    /\ pc = "notebook_scan"
    /\ line_no <= Len(source_lines)
    /\ LET st == scan_line([cells |-> cells, current_cell |-> current_cell,
                            in_code_block |-> in_code_block,
                            markdown_content |-> markdown_content],
                           source_lines[line_no])
       IN  /\ cells' = st.cells
           /\ current_cell' = st.current_cell
           /\ in_code_block' = st.in_code_block
           /\ markdown_content' = st.markdown_content
    /\ line_no' = line_no + 1
    /\ UNCHANGED <<pc, source_lines>>
    /\ NotebookFrame

\* lines 52-69: the loop has ended
ScanFinish ==
    /\ pc = "notebook_scan"
    /\ line_no > Len(source_lines)
    /\ cells' = remaining_content([cells |-> cells, current_cell |-> current_cell,
                                   in_code_block |-> in_code_block,
                                   markdown_content |-> markdown_content])
    /\ pc' = "notebook_done"
    /\ UNCHANGED <<markdown_content, source_lines, line_no, current_cell,
                   in_code_block>>
    /\ NotebookFrame

NextNotebook == NotebookSplit \/ ScanLine \/ ScanFinish

SpecNotebook == InitNotebook /\ [][NextNotebook]_vars

\* the positions of the fence lines, and the j-th of them
FencePositions == {k \in 1..Len(source_lines) : IsFence(source_lines[k])}
FenceAt(j) ==
    CHOOSE k \in FencePositions :
        Cardinality({m \in FencePositions : m <= k}) = j

\* run j (from 0) of the input: the lines after fence j, or from the
\* start, up to fence j + 1, or to the end
RunOf(j) ==
    LET first == IF j = 0 THEN 1 ELSE FenceAt(j) + 1
        last == IF j = Cardinality(FencePositions) THEN Len(source_lines)
                ELSE FenceAt(j + 1) - 1
    IN  SubSeq(source_lines, first, last)

\* some line of the run holds a character that is not whitespace
HasNonWhitespace(run) ==
    \E k \in 1..Len(run) : \E m \in 1..Len(run[k]) : run[k][m] \notin Whitespace

\* the cells run j is to yield: runs of odd number lie after an opening
\* fence and are code; a code run that a fence closes yields one code cell
\* whatever it holds (a source of one empty line when it holds nothing);
\* a markdown run and a code run that nothing closes yield a cell exactly
\* when they hold a character that is not whitespace
CellsOfRun(j) ==
    LET run == RunOf(j)
        code == j % 2 = 1
    IN  IF code /\ j < Cardinality(FencePositions)
        THEN <<[cell_type |-> "code",
                source |-> IF run = <<>> THEN << <<>> >> ELSE run]>>
        ELSE IF HasNonWhitespace(run)
        THEN <<[cell_type |-> IF code THEN "code" ELSE "markdown", source |-> run]>>
        ELSE <<>>

\* C30: the cells are those of the runs between the fence lines, in order:
\* no fence line is in any source, every other line is in the source of
\* at most one cell and the order of the lines is kept; a closed pair of
\* fences yields exactly one code cell even when nothing lies between
\* them; a markdown run and an unterminated trailing code block yield a
\* cell only when they hold a character that is not whitespace.
C30_FenceScanner ==
    pc = "notebook_done" =>
        /\ cells = Concat([j \in 1..(Cardinality(FencePositions) + 1) |->
                             CellsOfRun(j - 1)])
        /\ \A k \in 1..Len(cells) : \A m \in 1..Len(cells[k].source) :
              ~IsFence(cells[k].source[m])

\* 'a', an indented fence with a language, a closing fence right after
\* it, and a blank line: a markdown cell, an empty code cell, and nothing
\* for the blank rest
C30_Witness ==
    /\ pc = "notebook_done"
    /\ source_lines = << <<97>>, <<32, 32, 96, 96, 96, 112, 121>>,
                         <<96, 96, 96>>, <<32>> >>
    /\ cells = << [cell_type |-> "markdown", source |-> << <<97>> >>],
                  [cell_type |-> "code", source |-> << <<>> >>] >>

====
